---- MODULE Spec2Model ----
(***************************************************************************)
(* State-machine model of package network (Manager, peer, acceptOnce) and  *)
(* of the game loop's per-tick use of it (Game.updateNetwork).             *)
(*                                                                         *)
(* One Manager is modelled in full, together with the peer it may own, the *)
(* goroutines of that peer (readLoop, writeLoop), the accept goroutine,    *)
(* the game loop that calls LatestState / Send / Err every tick, and       *)
(* NumClosers goroutines that each call Manager.Close once.  The remote    *)
(* end of the TCP connection is the environment: it connects, writes       *)
(* snapshots, reads what the local writer put on the wire with the receive *)
(* path of readLoop, ends the stream or severs the connection.             *)
(*                                                                         *)
(* Every step is one atomic operation of the Go code: a select statement,  *)
(* a channel close, a critical section under a mutex, or one blocking I/O  *)
(* call.  The snapshot of tick n is LocalState(n), the n-th snapshot of    *)
(* the remote is RemoteState(n); snapshots cross the wire as JSON records. *)
(***************************************************************************)
EXTENDS Integers, Sequences, FiniteSets, TLC

\* const defaultSendBufferSize: capacity of peer.sendCh.
defaultSendBufferSize == 8

\* Ticks of the game loop explored in the pipeline scenario (SpecPipe).
MaxSends == 11
\* Ticks of the game loop explored in the lifecycle scenario (Spec).
MaxTicks == 1
\* Snapshots the remote end writes.
MaxRemote == 1
\* Goroutines that call Manager.Close (each once).
NumClosers == 2
\* Records the connection buffers hold before a write blocks.
WireCap == 1
\* Snapshots the remote end writes in the cache scenario (SpecCache).
MaxArrivals == 2
\* Ticks of the game loop explored in the cache scenario (SpecCache).
MaxPolls == 3
\* Snapshots the remote end writes in the codec scenario (SpecCodec).
MaxRecords == 1

Closers == {"close" \o ToString(i) : i \in 1..NumClosers}
Procs == {"tick", "reader", "writer", "accept"} \cup Closers

\* error values; Nil is Go's nil error
Nil == "nil"
ErrEOF == "EOF"                \* io.EOF
ErrNetClosed == "netClosed"    \* net.ErrClosed (use of closed connection)
ErrReset == "reset"            \* read fault on a severed connection
ErrWrite == "write"            \* write fault on a severed connection
ErrAccept == "accept"          \* accept fault other than net.ErrClosed
ErrListener == "lnOsErr"       \* listener.Close failure of the OS
ErrConn == "connOsErr"         \* conn.Close failure of the OS
ErrListen == "listen"          \* net.Listen failure
ErrDial == "dial"              \* net.DialTimeout failure

\* Snapshots.  A float64 is modelled by the integer q that stands for q/4:
\* quarters are exact in binary and have short decimal texts.
PlayerState(x, y, vx, vy, onGround, facingRight) ==
    [X |-> x, Y |-> y, VelocityX |-> vx, VelocityY |-> vy,
     OnGround |-> onGround, FacingRight |-> facingRight]

BulletState(x, y, vx) == [X |-> x, Y |-> y, VelocityX |-> vx]

\* []BulletState: a nil slice and an empty slice are different values.
NilSlice == [isNil |-> TRUE, elems |-> <<>>]
Slice(elems) == [isNil |-> FALSE, elems |-> elems]

\* StateMessage{}
ZeroState == [Player |-> PlayerState(0, 0, 0, 0, FALSE, FALSE), Bullets |-> NilSlice]

\* What buildLocalState returns in tick n: the player's fields and one
\* BulletState per live bullet, in the order of g.bullets, in a slice made
\* with make (never nil).  The game's physics is outside the model: the
\* values only have to differ from tick to tick.
LocalState(n) ==
    [Player |-> PlayerState(n, 0 - n, 1, 0, n % 2 = 0, TRUE),
     Bullets |-> Slice([i \in 1..(n % 3) |-> BulletState(n + i, 2, 3)])]

\* The same for the game at the remote end.
RemoteState(n) ==
    [Player |-> PlayerState(0 - (2 * n + 1), n, 0, 0 - 3, n % 2 = 1, FALSE),
     Bullets |-> Slice([i \in 1..((n + 1) % 3) |-> BulletState(i - n, 6, 0 - 5)])]

\* The game's entities.  NewPlayer(x, y): a player at rest, facing right.
NewPlayer(x, y) ==
    [X |-> x, Y |-> y, VelocityX |-> 0, VelocityY |-> 0,
     OnGround |-> FALSE, FacingRight |-> TRUE]

\* g.remote before a networked game has its Manager.
NilPlayer == [isNil |-> TRUE]

\* entities.NewPlayer(player.X, player.Y), the local player being made by
\* entities.NewPlayer(100, 100): the remote player of a new networked game.
StartPlayer == NewPlayer(100, 100)

\* config.BulletWidth, config.BulletHeight: the size of every bullet.
BulletWidth == "config.BulletWidth"
BulletHeight == "config.BulletHeight"

NewBullet(x, y, velocityX, width, height) ==
    [X |-> x, Y |-> y, VelocityX |-> velocityX, Width |-> width, Height |-> height]

\* applyRemoteState, the player: a nil g.remote is made first, then the
\* six fields are assigned from state.Player.
ApplyRemotePlayer(state) ==
    [NewPlayer(state.Player.X, state.Player.Y) EXCEPT
       !.X = state.Player.X, !.Y = state.Player.Y,
       !.VelocityX = state.Player.VelocityX, !.VelocityY = state.Player.VelocityY,
       !.OnGround = state.Player.OnGround, !.FacingRight = state.Player.FacingRight]

\* An applyRemoteState that appends to the bullets it already has.
EnemyFireKept(fire) == fire

\* g.enemyFire = g.enemyFire[:0] (or a fresh empty slice when it was nil).
EnemyFireReset(fire) == SubSeq(fire, 1, 0)

\* applyRemoteState, the bullets: one entities.Bullet appended per element
\* of state.Bullets, in order (a nil slice has none).
ApplyEnemyFire(fire, state) ==
    EnemyFireReset(fire)
       \o [i \in 1..Len(state.Bullets.elems) |->
             NewBullet(state.Bullets.elems[i].X, state.Bullets.elems[i].Y,
                       state.Bullets.elems[i].VelocityX, BulletWidth, BulletHeight)]

VARIABLES
    mode,          \* "host" (Host) or "join" (Join): how the Manager was made
    estRet,        \* what Host / Join returned: <<a Manager, err>>
    m_peer,        \* Manager.peer # nil
    m_listener,    \* Manager.listener # nil
    m_closed,      \* channel Manager.closed is closed
    m_err,         \* Manager.err
    closeOnce,     \* Manager.closeOnce: "new", "running", "done"
    lnClosed,      \* the net.Listener object has been closed
    sendCh,        \* peer.sendCh: buffered snapshots
    p_closed,      \* channel peer.closed is closed
    sendChClosed,  \* channel peer.sendCh is closed
    connClosed,    \* peer.conn has been closed locally
    closeFn,       \* peer.closeFn: "new", "running", "done"
    latest,        \* peer.latest
    hasData,       \* peer.hasData
    p_err,         \* peer.err
    pc,            \* control point of every goroutine
    ret,           \* where a goroutine continues after peer.close returns
    rdMsg,         \* readLoop: msg
    ioErr,         \* readLoop / writeLoop: err of the failed I/O call
    wrMsg,         \* writeLoop: msg
    clResult,      \* Manager.Close: result, per caller
    clRet,         \* value returned by each Close call ("none" before)
    clAfter,       \* the Close call started after another Close had returned
    clLnErr,       \* what listener.Close returned inside the teardown
    clPeerErr,     \* what peer.close returned inside the teardown
    bodyRuns,      \* times the closeOnce body was entered
    tick,          \* ticks started by the game loop
    lsRet,         \* last return of Manager.LatestState: <<state, ok>>
    sendRet,       \* last return of Manager.Send ("none" before the first)
    errRet,        \* last return of Manager.Err ("none" before the first)
    sendDropped,   \* entries the current / last send call removed from sendCh
    sendHadRoom,   \* sendCh had room when the current / last send call began
    sendBegan,     \* closeFn when the current / last peer.send call began
    conn,          \* TCP connection: "none", "pending" (in backlog), "open"
    wireIn,        \* records in flight, remote -> local
    wireOut,       \* records in flight, local -> remote
    inEnd,         \* how the inbound stream ends: "none", "eof", "reset"
    outFault,      \* writes to the connection fail
    rsent,         \* snapshots the remote has written
    rLatest,       \* remote peer.latest
    rHasData,      \* remote peer.hasData
    g_remote,      \* Game.remote: the remote player's entity (NilPlayer: nil)
    g_enemyFire    \* Game.enemyFire: the remote player's bullets

mgrVars == <<mode, estRet, m_peer, m_listener, m_closed, m_err, closeOnce, lnClosed>>
peerVars == <<sendCh, p_closed, sendChClosed, connClosed, closeFn, latest, hasData, p_err>>
locVars == <<rdMsg, ioErr, wrMsg>>
closeVars == <<clResult, clRet, clAfter, clLnErr, clPeerErr, bodyRuns>>
tickVars == <<tick, lsRet, sendRet, errRet, sendDropped, sendHadRoom, sendBegan>>
envVars == <<conn, wireIn, wireOut, inEnd, outFault, rsent, rLatest, rHasData>>
gameVars == <<g_remote, g_enemyFire>>
vars == <<mgrVars, peerVars, pc, ret, locVars, closeVars, tickVars, envVars, gameVars>>

\* An unrecovered panic ends the whole process.
Alive == pc["tick"] # "panic"

----------------------------------------------------------------------------
\* Wire format: encoding/json.  A record is the JSON text of one snapshot,
\* modelled as its tokens: an object is the sequence of its <<key, value>>
\* members, a number is its sign, integer digits (as a number) and
\* fraction digits, a boolean is the word true or false.

\* A fixed precision of one fraction digit in place of the shortest text.
FormatFloatOneDigit(q) ==
    LET a == IF q < 0 THEN 0 - q ELSE q
    IN  [neg |-> q < 0, int |-> a \div 4,
         frac |-> CASE a % 4 = 0 -> <<0>>
                    [] a % 4 = 1 -> <<2>>
                    [] a % 4 = 2 -> <<5>>
                    [] a % 4 = 3 -> <<8>>]

\* strconv.AppendFloat(f, 'f', -1, 64): the shortest decimal text.
FormatFloat(q) ==
    LET a == IF q < 0 THEN 0 - q ELSE q
    IN  [neg |-> q < 0, int |-> a \div 4,
         frac |-> CASE a % 4 = 0 -> <<>>
                    [] a % 4 = 1 -> <<2, 5>>
                    [] a % 4 = 2 -> <<5>>
                    [] a % 4 = 3 -> <<7, 5>>]

\* The number a digit string denotes, and a power of ten.
RECURSIVE DigitsValue(_)
DigitsValue(ds) ==
    IF ds = <<>> THEN 0 ELSE 10 * DigitsValue(SubSeq(ds, 1, Len(ds) - 1)) + ds[Len(ds)]

RECURSIVE Pow10(_)
Pow10(n) == IF n = 0 THEN 1 ELSE 10 * Pow10(n - 1)

\* strconv.ParseFloat: the float64 nearest to the decimal text.
ParseFloat(t) ==
    LET a == 4 * t.int + (4 * DigitsValue(t.frac)) \div Pow10(Len(t.frac))
    IN  IF t.neg THEN 0 - a ELSE a

FormatBool(b) == IF b THEN "true" ELSE "false"
ParseBool(t) == t = "true"

\* json.Marshal of a struct: its exported fields in declaration order.
MarshalPlayer(p) ==
    << <<"X", FormatFloat(p.X)>>, <<"Y", FormatFloat(p.Y)>>,
       <<"VelocityX", FormatFloat(p.VelocityX)>>,
       <<"VelocityY", FormatFloat(p.VelocityY)>>,
       <<"OnGround", FormatBool(p.OnGround)>>,
       <<"FacingRight", FormatBool(p.FacingRight)>> >>

MarshalBullet(b) ==
    << <<"X", FormatFloat(b.X)>>, <<"Y", FormatFloat(b.Y)>>,
       <<"VelocityX", FormatFloat(b.VelocityX)>> >>

\* json.Marshal of a slice: null for nil, else the array of its elements.
MarshalBullets(bs) ==
    IF bs.isNil THEN [null |-> TRUE, items |-> <<>>]
    ELSE [null |-> FALSE,
          items |-> [i \in 1..Len(bs.elems) |-> MarshalBullet(bs.elems[i])]]

Marshal(s) ==
    << <<"Player", MarshalPlayer(s.Player)>>, <<"Bullets", MarshalBullets(s.Bullets)>> >>

\* Object members: is the key present, and its value.
Has(obj, k) == \E i \in 1..Len(obj) : obj[i][1] = k
Get(obj, k) == obj[CHOOSE i \in 1..Len(obj) : obj[i][1] = k][2]

\* json.Unmarshal into a zero struct: a member sets its field, a field
\* without a member keeps its zero value.
FloatField(obj, k) == IF Has(obj, k) THEN ParseFloat(Get(obj, k)) ELSE 0
BoolField(obj, k) == IF Has(obj, k) THEN ParseBool(Get(obj, k)) ELSE FALSE

UnmarshalPlayer(obj) ==
    PlayerState(FloatField(obj, "X"), FloatField(obj, "Y"),
                FloatField(obj, "VelocityX"), FloatField(obj, "VelocityY"),
                BoolField(obj, "OnGround"), BoolField(obj, "FacingRight"))

UnmarshalBullet(obj) ==
    BulletState(FloatField(obj, "X"), FloatField(obj, "Y"), FloatField(obj, "VelocityX"))

\* json.Unmarshal into a nil slice: null leaves it nil, an array makes a
\* slice with one element per item, in order.
UnmarshalBullets(arr) ==
    IF arr.null THEN NilSlice
    ELSE Slice([i \in 1..Len(arr.items) |-> UnmarshalBullet(arr.items[i])])

Unmarshal(obj) ==
    [Player |-> IF Has(obj, "Player") THEN UnmarshalPlayer(Get(obj, "Player"))
                ELSE ZeroState.Player,
     Bullets |-> IF Has(obj, "Bullets") THEN UnmarshalBullets(Get(obj, "Bullets"))
                 ELSE NilSlice]

\* encoder.Encode(&msg) writes one record; decoder.Decode(&msg), with msg a
\* fresh StateMessage, reads one.
Encode(s) == [json |-> Marshal(s)]
Decode(r) == Unmarshal(r.json)

\* errors.Is(err, io.EOF)
IsEOF(e) == e = ErrEOF
\* errors.Is(err, net.ErrClosed)
IsNetClosed(e) == e = ErrNetClosed

----------------------------------------------------------------------------
\* newManager / Host / Join / newPeer: the state right after construction.
InitCommon ==
    /\ m_closed = FALSE /\ m_err = Nil /\ closeOnce = "new" /\ lnClosed = FALSE
    /\ sendCh = <<>> /\ p_closed = FALSE /\ sendChClosed = FALSE
    /\ connClosed = FALSE /\ closeFn = "new"
    /\ latest = ZeroState /\ hasData = FALSE /\ p_err = Nil
    /\ ret = [p \in Procs |-> "done"]
    /\ rdMsg = ZeroState /\ wrMsg = ZeroState
    /\ ioErr = [p \in {"reader", "writer"} |-> Nil]
    /\ clResult = [c \in Closers |-> Nil]
    /\ clRet = [c \in Closers |-> "none"]
    /\ clAfter = [c \in Closers |-> FALSE]
    /\ clLnErr = "none" /\ clPeerErr = "none" /\ bodyRuns = 0
    /\ tick = 0 /\ lsRet = <<ZeroState, FALSE>> /\ sendRet = "none"
    /\ errRet = "none" /\ sendDropped = 0 /\ sendHadRoom = FALSE
    /\ sendBegan = "none"
    /\ g_enemyFire = <<>>
    /\ wireIn = <<>> /\ wireOut = <<>> /\ inEnd = "none" /\ outFault = FALSE
    /\ rsent = 0 /\ rLatest = ZeroState /\ rHasData = FALSE

\* Where everyone stands when Host has returned a Manager: acceptOnce
\* started, no peer goroutines, the game loop and the Close callers ready.
HostPc ==
    [p \in Procs |->
       CASE p = "tick" -> "idle"
         [] p = "accept" -> "getListener"
         [] p \in {"reader", "writer"} -> "off"
         [] OTHER -> "idle"]

\* Where everyone stands when Join has returned a Manager: readLoop and
\* writeLoop started by newPeer, no accept goroutine.
JoinPc ==
    [p \in Procs |->
       CASE p = "tick" -> "idle"
         [] p = "accept" -> "off"
         [] p = "reader" -> "decode"
         [] p = "writer" -> "select"
         [] OTHER -> "idle"]

\* Host: listener bound, no peer, accept goroutine started.
InitHost ==
    /\ InitCommon
    /\ mode = "host" /\ m_peer = FALSE /\ m_listener = TRUE /\ conn = "none"
    /\ estRet = <<TRUE, Nil>>
    /\ pc = HostPc
    /\ g_remote = StartPlayer

\* Join: dial succeeded, peer bound, readLoop and writeLoop started.
InitJoin ==
    /\ InitCommon
    /\ mode = "join" /\ m_peer = TRUE /\ m_listener = FALSE /\ conn = "open"
    /\ estRet = <<TRUE, Nil>>
    /\ pc = JoinPc
    /\ g_remote = StartPlayer

Init == InitHost \/ InitJoin

\* Before construction: Host or Join has been called and has not returned;
\* there is no Manager, no peer and no goroutine of the package.
InitCall ==
    /\ InitCommon
    /\ mode \in {"host", "join"} /\ estRet = <<FALSE, "none">>
    /\ m_peer = FALSE /\ m_listener = FALSE /\ conn = "none"
    /\ pc = [p \in Procs |-> "off"]
    /\ g_remote = NilPlayer

\* Host: listener, err := net.Listen; if err != nil { return nil, err };
\* newManager(nil), manager.listener = listener, go manager.acceptOnce(),
\* return manager, nil.  NewGameWithOptions then makes g.remote.
Host ==
    /\ mode = "host" /\ estRet = <<FALSE, "none">>
    /\ \E e \in {Nil, ErrListen} :
          IF e # Nil
             THEN /\ estRet' = <<FALSE, e>>
                  /\ UNCHANGED <<mode, m_peer, m_listener, m_closed, m_err, closeOnce,
                                 lnClosed, peerVars, pc, ret, locVars, closeVars,
                                 tickVars, gameVars, envVars>>
             ELSE /\ estRet' = <<TRUE, Nil>>
                  /\ m_listener' = TRUE
                  /\ pc' = HostPc
                  /\ g_remote' = StartPlayer
                  /\ UNCHANGED <<mode, m_peer, m_closed, m_err, closeOnce, lnClosed,
                                 peerVars, ret, locVars, closeVars, tickVars,
                                 g_enemyFire, envVars>>

\* A Join that builds the peer before it looks at the error of the dial.
JoinIgnoresErr ==
    /\ mode = "join" /\ estRet = <<FALSE, "none">>
    /\ \E e \in {Nil, ErrDial} :
          IF e # Nil
             THEN /\ estRet' = <<FALSE, e>>
                  /\ pc' = [pc EXCEPT !["reader"] = "decode", !["writer"] = "select"]
                  /\ UNCHANGED <<mode, m_peer, m_listener, m_closed, m_err, closeOnce,
                                 lnClosed, peerVars, ret, locVars, closeVars,
                                 tickVars, gameVars, envVars>>
             ELSE /\ estRet' = <<TRUE, Nil>>
                  /\ m_peer' = TRUE /\ conn' = "open"
                  /\ pc' = JoinPc
                  /\ g_remote' = StartPlayer
                  /\ UNCHANGED <<mode, m_listener, m_closed, m_err, closeOnce, lnClosed,
                                 peerVars, ret, locVars, closeVars, tickVars, g_enemyFire, wireIn,
                                 wireOut, inEnd, outFault, rsent, rLatest, rHasData>>

\* Join: conn, err := net.DialTimeout; if err != nil { return nil, err };
\* return newManager(newPeer(conn)), nil.
Join ==
    /\ mode = "join" /\ estRet = <<FALSE, "none">>
    /\ \E e \in {Nil, ErrDial} :
          IF e # Nil
             THEN /\ estRet' = <<FALSE, e>>
                  /\ UNCHANGED <<mode, m_peer, m_listener, m_closed, m_err, closeOnce,
                                 lnClosed, peerVars, pc, ret, locVars, closeVars,
                                 tickVars, gameVars, envVars>>
             ELSE /\ estRet' = <<TRUE, Nil>>
                  /\ m_peer' = TRUE /\ conn' = "open"
                  /\ pc' = JoinPc
                  /\ g_remote' = StartPlayer
                  /\ UNCHANGED <<mode, m_listener, m_closed, m_err, closeOnce, lnClosed,
                                 peerVars, ret, locVars, closeVars, tickVars, g_enemyFire, wireIn,
                                 wireOut, inEnd, outFault, rsent, rLatest, rHasData>>

----------------------------------------------------------------------------
\* peer.close: closeFn.Do(func() { close(p.closed); close(p.sendCh);
\* result = p.conn.Close() }).  The goroutine that wins the Once runs the
\* three statements one at a time; any other caller waits inside Do until
\* the body has finished and then returns nil.

\* The body without the Once: every caller closes p.closed.
PeerCloseEnterNoOnce(self) ==
    /\ Alive /\ pc[self] = "pclose"
    /\ closeFn' = "running" /\ p_closed' = TRUE
    /\ pc' = [pc EXCEPT ![self] = "pclose2"]
    /\ UNCHANGED <<mgrVars, sendCh, sendChClosed, connClosed, latest, hasData,
                   p_err, ret, locVars, closeVars, tickVars, gameVars, envVars>>

\* closeFn.Do entered first: close(p.closed).
PeerCloseEnter(self) ==
    /\ Alive /\ pc[self] = "pclose" /\ closeFn = "new"
    /\ closeFn' = "running" /\ p_closed' = TRUE
    /\ pc' = [pc EXCEPT ![self] = "pclose2"]
    /\ UNCHANGED <<mgrVars, sendCh, sendChClosed, connClosed, latest, hasData,
                   p_err, ret, locVars, closeVars, tickVars, gameVars, envVars>>

\* A peer.close that leaves the queue open.
PeerCloseKeepsSendCh(self) ==
    /\ Alive /\ pc[self] = "pclose2"
    /\ pc' = [pc EXCEPT ![self] = "pclose3"]
    /\ UNCHANGED <<mgrVars, peerVars, ret, locVars, closeVars, tickVars, gameVars, envVars>>

\* close(p.sendCh)
PeerCloseSendCh(self) ==
    /\ Alive /\ pc[self] = "pclose2"
    /\ sendChClosed' = TRUE
    /\ pc' = [pc EXCEPT ![self] = "pclose3"]
    /\ UNCHANGED <<mgrVars, sendCh, p_closed, connClosed, closeFn, latest, hasData,
                   p_err, ret, locVars, closeVars, tickVars, gameVars, envVars>>

\* What Manager.Close does with the value peer.close returned
\* (if err != nil && result == nil && !errors.Is(err, net.ErrClosed)).
CloseTakePeerErr(c, e) ==
    /\ clPeerErr' = e
    /\ clResult' = [clResult EXCEPT ![c] =
                      IF e # Nil /\ clResult[c] = Nil /\ ~IsNetClosed(e) THEN e ELSE @]

\* peer.close returns e to self; only Manager.Close looks at the value.
PeerCloseReturn(self, e) ==
    /\ pc' = [pc EXCEPT ![self] = ret[self]]
    /\ IF self \in Closers
          THEN CloseTakePeerErr(self, e) /\ UNCHANGED <<clRet, clAfter, clLnErr, bodyRuns>>
          ELSE UNCHANGED closeVars

\* A close that also resets the cached snapshot.
PeerCloseConnClearsCache(self) ==
    /\ Alive /\ pc[self] = "pclose3"
    /\ connClosed' = TRUE /\ closeFn' = "done"
    /\ latest' = ZeroState /\ hasData' = FALSE
    /\ \E e \in {Nil, ErrConn} : PeerCloseReturn(self, e)
    /\ UNCHANGED <<mgrVars, sendCh, p_closed, sendChClosed,
                   p_err, ret, locVars, tickVars, gameVars, envVars>>

\* result = p.conn.Close(); the Once is done.  The remote sees the stream end.
PeerCloseConn(self) ==
    /\ Alive /\ pc[self] = "pclose3"
    /\ connClosed' = TRUE /\ closeFn' = "done"
    /\ \E e \in {Nil, ErrConn} : PeerCloseReturn(self, e)
    /\ UNCHANGED <<mgrVars, sendCh, p_closed, sendChClosed, latest, hasData,
                   p_err, ret, locVars, tickVars, gameVars, envVars>>

\* closeFn.Do when the body already ran: returns nil at once.
PeerCloseAgain(self) ==
    /\ Alive /\ pc[self] = "pclose" /\ closeFn = "done"
    /\ PeerCloseReturn(self, Nil)
    /\ UNCHANGED <<mgrVars, peerVars, ret, locVars, tickVars, gameVars, envVars>>

PeerClose(self) ==
    \/ PeerCloseEnter(self)
    \/ PeerCloseSendCh(self)
    \/ PeerCloseConn(self)
    \/ PeerCloseAgain(self)

----------------------------------------------------------------------------
\* A setErr without the `if p.err == nil` test: the last error wins.
SetErrLast(cur, e) == IF e = Nil THEN cur ELSE e

\* peer.setErr / Manager.setErr: the first non-nil error wins.
SetErr(cur, e) == IF e = Nil THEN cur ELSE IF cur = Nil THEN e ELSE cur

\* A read that the local conn.Close does not interrupt: the reader stays
\* blocked until the remote ends the stream.
ReaderDecodeIgnoresClose ==
    /\ Alive /\ pc["reader"] = "decode"
    /\ \/ /\ wireIn # <<>>
          /\ rdMsg' = Decode(Head(wireIn))
          /\ wireIn' = Tail(wireIn)
          /\ pc' = [pc EXCEPT !["reader"] = "store"]
          /\ UNCHANGED ioErr
       \/ /\ wireIn = <<>> /\ inEnd # "none"
          /\ ioErr' = [ioErr EXCEPT !["reader"] =
                         IF inEnd = "eof" THEN ErrEOF ELSE ErrReset]
          /\ pc' = [pc EXCEPT !["reader"] = "setErr"]
          /\ UNCHANGED <<rdMsg, wireIn>>
    /\ UNCHANGED <<mgrVars, peerVars, ret, wrMsg, closeVars, tickVars, gameVars,
                   conn, wireOut, inEnd, outFault, rsent, rLatest, rHasData>>

\* readLoop: decoder.Decode(&msg).  The call blocks while nothing has arrived
\* and the stream has not ended.  json.Decoder reads ahead, so after a local
\* conn.Close a record that already arrived may still be decoded.
ReaderDecode ==
    /\ Alive /\ pc["reader"] = "decode"
    /\ \/ /\ wireIn # <<>>
          /\ rdMsg' = Decode(Head(wireIn))
          /\ wireIn' = Tail(wireIn)
          /\ pc' = [pc EXCEPT !["reader"] = "store"]
          /\ UNCHANGED ioErr
       \/ /\ connClosed
          /\ ioErr' = [ioErr EXCEPT !["reader"] = ErrNetClosed]
          /\ pc' = [pc EXCEPT !["reader"] = "setErr"]
          /\ UNCHANGED <<rdMsg, wireIn>>
       \/ /\ ~connClosed /\ wireIn = <<>> /\ inEnd # "none"
          /\ ioErr' = [ioErr EXCEPT !["reader"] =
                         IF inEnd = "eof" THEN ErrEOF ELSE ErrReset]
          /\ pc' = [pc EXCEPT !["reader"] = "setErr"]
          /\ UNCHANGED <<rdMsg, wireIn>>
    /\ UNCHANGED <<mgrVars, peerVars, ret, wrMsg, closeVars, tickVars, gameVars,
                   conn, wireOut, inEnd, outFault, rsent, rLatest, rHasData>>

\* A store that copies the player and leaves the bullets of the snapshot
\* cached before.
ReaderStoreMerges ==
    /\ Alive /\ pc["reader"] = "store"
    /\ latest' = [latest EXCEPT !.Player = rdMsg.Player] /\ hasData' = TRUE
    /\ rdMsg' = ZeroState
    /\ pc' = [pc EXCEPT !["reader"] = "decode"]
    /\ UNCHANGED <<mgrVars, sendCh, p_closed, sendChClosed, connClosed, closeFn,
                   p_err, ret, ioErr, wrMsg, closeVars, tickVars, gameVars, envVars>>

\* readLoop: p.mu.Lock(); p.latest = msg; p.hasData = true; p.mu.Unlock();
\* the next iteration declares a fresh msg.
ReaderStore ==
    /\ Alive /\ pc["reader"] = "store"
    /\ latest' = rdMsg /\ hasData' = TRUE
    /\ rdMsg' = ZeroState
    /\ pc' = [pc EXCEPT !["reader"] = "decode"]
    /\ UNCHANGED <<mgrVars, sendCh, p_closed, sendChClosed, connClosed, closeFn,
                   p_err, ret, ioErr, wrMsg, closeVars, tickVars, gameVars, envVars>>

\* A readLoop that takes the end of the stream for a normal return and
\* records nothing.
ReaderSetErrSkipsEOF ==
    /\ Alive /\ pc["reader"] = "setErr"
    /\ p_err' = SetErr(p_err, IF IsEOF(ioErr["reader"]) THEN Nil ELSE ioErr["reader"])
    /\ pc' = [pc EXCEPT !["reader"] = "pclose"]
    /\ UNCHANGED <<mgrVars, sendCh, p_closed, sendChClosed, connClosed, closeFn,
                   latest, hasData, ret, locVars, closeVars, tickVars, gameVars, envVars>>

\* readLoop: io.EOF is recorded as io.EOF, anything else as itself; then
\* p.close() and return.
ReaderSetErr ==
    /\ Alive /\ pc["reader"] = "setErr"
    /\ p_err' = SetErr(p_err, IF IsEOF(ioErr["reader"]) THEN ErrEOF ELSE ioErr["reader"])
    /\ pc' = [pc EXCEPT !["reader"] = "pclose"]
    /\ UNCHANGED <<mgrVars, sendCh, p_closed, sendChClosed, connClosed, closeFn,
                   latest, hasData, ret, locVars, closeVars, tickVars, gameVars, envVars>>

Reader == ReaderDecode \/ ReaderStore \/ ReaderSetErr \/ PeerClose("reader")

----------------------------------------------------------------------------
\* writeLoop: select { case <-p.closed: return; case msg, ok := <-p.sendCh }.
\* Among the ready cases Go picks one at random.
WriterSelect ==
    /\ Alive /\ pc["writer"] = "select"
    /\ \/ /\ p_closed
          /\ pc' = [pc EXCEPT !["writer"] = "done"]
          /\ UNCHANGED <<sendCh, wrMsg>>
       \/ /\ sendCh # <<>>
          /\ wrMsg' = Head(sendCh) /\ sendCh' = Tail(sendCh)
          /\ pc' = [pc EXCEPT !["writer"] = "encode"]
       \/ /\ sendCh = <<>> /\ sendChClosed
          /\ pc' = [pc EXCEPT !["writer"] = "done"]
          /\ UNCHANGED <<sendCh, wrMsg>>
    /\ UNCHANGED <<mgrVars, p_closed, sendChClosed, connClosed, closeFn, latest,
                   hasData, p_err, ret, rdMsg, ioErr, closeVars, tickVars, gameVars, envVars>>

\* writeLoop: encoder.Encode(&msg).  The write blocks while the connection's
\* buffers are full; it fails on a locally closed or severed connection.
WriterEncode ==
    /\ Alive /\ pc["writer"] = "encode"
    /\ \/ /\ connClosed
          /\ ioErr' = [ioErr EXCEPT !["writer"] = ErrNetClosed]
          /\ pc' = [pc EXCEPT !["writer"] = "setErr"]
          /\ UNCHANGED wireOut
       \/ /\ ~connClosed /\ outFault
          /\ ioErr' = [ioErr EXCEPT !["writer"] = ErrWrite]
          /\ pc' = [pc EXCEPT !["writer"] = "setErr"]
          /\ UNCHANGED wireOut
       \/ /\ ~connClosed /\ ~outFault /\ Len(wireOut) < WireCap
          /\ wireOut' = Append(wireOut, Encode(wrMsg))
          /\ pc' = [pc EXCEPT !["writer"] = "select"]
          /\ UNCHANGED ioErr
    /\ wrMsg' = IF pc'["writer"] = "select" THEN ZeroState ELSE wrMsg
    /\ UNCHANGED <<mgrVars, peerVars, ret, rdMsg, closeVars, tickVars, gameVars,
                   conn, wireIn, inEnd, outFault, rsent, rLatest, rHasData>>

\* A writeLoop that closes the peer without recording the failed write.
WriterSetErrUnrecorded ==
    /\ Alive /\ pc["writer"] = "setErr"
    /\ pc' = [pc EXCEPT !["writer"] = "pclose"]
    /\ UNCHANGED <<mgrVars, peerVars, ret, locVars, closeVars, tickVars, gameVars, envVars>>

\* writeLoop: p.setErr(err); then p.close() and return.
WriterSetErr ==
    /\ Alive /\ pc["writer"] = "setErr"
    /\ p_err' = SetErr(p_err, ioErr["writer"])
    /\ pc' = [pc EXCEPT !["writer"] = "pclose"]
    /\ UNCHANGED <<mgrVars, sendCh, p_closed, sendChClosed, connClosed, closeFn,
                   latest, hasData, ret, locVars, closeVars, tickVars, gameVars, envVars>>

Writer == WriterSelect \/ WriterEncode \/ WriterSetErr \/ PeerClose("writer")

----------------------------------------------------------------------------
\* The cache of a peer that exists, read without asking whether it is bound.
LatestStateUnbound ==
    IF hasData THEN <<latest, TRUE>> ELSE <<ZeroState, FALSE>>

\* Manager.LatestState: getPeer, then peer.latestState under p.mu.RLock.
LatestState ==
    IF m_peer /\ hasData THEN <<latest, TRUE>> ELSE <<ZeroState, FALSE>>

\* A send case on sendCh can proceed without blocking: the buffer has room.
HasRoom(q) == Len(q) < defaultSendBufferSize

\* A drain loop in place of the single receive: removes two entries.
DropTwo(q) == IF Len(q) >= 2 THEN Tail(Tail(q)) ELSE <<>>

\* The receive left out: nothing is removed, the newest snapshot loses.
DropNone(q) == q

\* An eviction from the other end of the queue: the newest entry is removed.
DropNewest(q) == SubSeq(q, 1, Len(q) - 1)

\* `case <-p.sendCh:` of the overflow path: the oldest queued entry is removed.
DropOldest(q) == Tail(q)

\* The selects of peer.send without their default case: send would wait.
NoDefaultCase == FALSE

\* The selects of peer.send have a `default:` case, taken when no other case
\* is ready.
DefaultCase == TRUE

\* A fixed "closed" error in place of the sticky one.
SendClosedFixed == ErrNetClosed

\* The error value peer.send returns once it saw p.closed: p.getErr().
SendClosedResult == p_err

\* An updateNetwork that polls Err whatever Send returned.
AfterSendAlwaysPolls(r) ==
    /\ sendRet' = r
    /\ pc' = [pc EXCEPT !["tick"] = "err1"]

\* Game.updateNetwork after Send returned r: a non-nil error ends the game.
AfterSend(r) ==
    /\ sendRet' = r
    /\ pc' = [pc EXCEPT !["tick"] = IF r = Nil THEN "err1" ELSE "stopped"]

\* Game.updateNetwork, first call of the tick: g.net.LatestState()
\* (bounded by lim ticks), and applyRemoteState when it reported a snapshot;
\* buildLocalState then identifies the snapshot.
TickLatest(lim) ==
    /\ Alive /\ pc["tick"] = "idle" /\ tick < lim
    /\ tick' = tick + 1
    /\ lsRet' = LatestState
    /\ sendDropped' = 0 /\ sendHadRoom' = FALSE /\ sendBegan' = "none"
    /\ pc' = [pc EXCEPT !["tick"] = "send1"]
    /\ IF LatestState[2]
          THEN /\ g_remote' = ApplyRemotePlayer(LatestState[1])
               /\ g_enemyFire' = ApplyEnemyFire(g_enemyFire, LatestState[1])
          ELSE UNCHANGED gameVars
    /\ UNCHANGED <<mgrVars, peerVars, ret, locVars, closeVars, sendRet, errRet, envVars>>

\* Manager.Send: getPeer; without a peer return nil.  peer.send, first
\* select: case <-p.closed / case p.sendCh <- state / default.  A send case
\* on a closed channel is ready and panics when it is the one chosen.
TickSend1 ==
    /\ Alive /\ pc["tick"] = "send1"
    /\ \/ /\ ~m_peer
          /\ AfterSend(Nil)
          /\ UNCHANGED sendCh
       \/ /\ m_peer /\ p_closed
          /\ AfterSend(SendClosedResult)
          /\ UNCHANGED sendCh
       \/ /\ m_peer /\ sendChClosed
          /\ pc' = [pc EXCEPT !["tick"] = "panic"]
          /\ UNCHANGED <<sendCh, sendRet>>
       \/ /\ m_peer /\ ~sendChClosed /\ HasRoom(sendCh)
          /\ sendCh' = Append(sendCh, LocalState(tick))
          /\ AfterSend(Nil)
       \/ /\ m_peer /\ DefaultCase /\ ~p_closed /\ ~sendChClosed /\ ~HasRoom(sendCh)
          /\ pc' = [pc EXCEPT !["tick"] = "send2"]
          /\ UNCHANGED <<sendCh, sendRet>>
    /\ sendHadRoom' = (m_peer /\ HasRoom(sendCh))
    /\ sendBegan' = IF m_peer THEN closeFn ELSE "none"
    /\ UNCHANGED <<mgrVars, p_closed, sendChClosed, connClosed, closeFn, latest,
                   hasData, p_err, ret, locVars, closeVars, tick, lsRet, errRet,
                   sendDropped, gameVars, envVars>>

\* peer.send, second select: case <-p.closed / case <-p.sendCh / default.
\* A receive on a closed, drained channel yields the zero value at once.
TickSend2 ==
    /\ Alive /\ pc["tick"] = "send2"
    /\ \/ /\ p_closed
          /\ AfterSend(SendClosedResult)
          /\ UNCHANGED <<sendCh, sendDropped>>
       \/ /\ sendCh # <<>>
          /\ sendCh' = DropOldest(sendCh)
          /\ sendDropped' = sendDropped + (Len(sendCh) - Len(sendCh'))
          /\ pc' = [pc EXCEPT !["tick"] = "send3"]
          /\ UNCHANGED sendRet
       \/ /\ sendCh = <<>> /\ (sendChClosed \/ (DefaultCase /\ ~p_closed))
          /\ pc' = [pc EXCEPT !["tick"] = "send3"]
          /\ UNCHANGED <<sendCh, sendDropped, sendRet>>
    /\ UNCHANGED <<mgrVars, p_closed, sendChClosed, connClosed, closeFn, latest,
                   hasData, p_err, ret, locVars, closeVars, tick, lsRet, errRet,
                   sendHadRoom, sendBegan, gameVars, envVars>>

\* peer.send, third select: case <-p.closed / case p.sendCh <- state /
\* default: return nil (the snapshot is given up).
TickSend3 ==
    /\ Alive /\ pc["tick"] = "send3"
    /\ \/ /\ p_closed
          /\ AfterSend(SendClosedResult)
          /\ UNCHANGED sendCh
       \/ /\ sendChClosed
          /\ pc' = [pc EXCEPT !["tick"] = "panic"]
          /\ UNCHANGED <<sendCh, sendRet>>
       \/ /\ ~sendChClosed /\ HasRoom(sendCh)
          /\ sendCh' = Append(sendCh, LocalState(tick))
          /\ AfterSend(Nil)
       \/ /\ DefaultCase /\ ~p_closed /\ ~sendChClosed /\ ~HasRoom(sendCh)
          /\ AfterSend(Nil)
          /\ UNCHANGED sendCh
    /\ UNCHANGED <<mgrVars, p_closed, sendChClosed, connClosed, closeFn, latest,
                   hasData, p_err, ret, locVars, closeVars, tick, lsRet, errRet,
                   sendDropped, sendHadRoom, sendBegan, gameVars, envVars>>

\* Manager.Err, first read: m.getErr(); a non-nil error is returned (and
\* ends the game).
TickErr1 ==
    /\ Alive /\ pc["tick"] = "err1"
    /\ IF m_err # Nil
          THEN errRet' = m_err /\ pc' = [pc EXCEPT !["tick"] = "stopped"]
          ELSE errRet' = errRet /\ pc' = [pc EXCEPT !["tick"] = "err2"]
    /\ UNCHANGED <<mgrVars, peerVars, ret, locVars, closeVars, tick, lsRet, sendRet,
                   sendDropped, sendHadRoom, sendBegan, gameVars, envVars>>

\* An Err that stops at the Manager's own error.
ErrNoDelegation == Nil

\* Manager.Err, second read: getPeer, then peer.getErr() or nil.
ErrOfPeer == IF m_peer THEN p_err ELSE Nil

\* What Manager.Err returns when both reads see the current state.
ErrValue == IF m_err # Nil THEN m_err ELSE ErrOfPeer

TickErr2 ==
    /\ Alive /\ pc["tick"] = "err2"
    /\ errRet' = ErrOfPeer
    /\ pc' = [pc EXCEPT !["tick"] = IF errRet' = Nil THEN "idle" ELSE "stopped"]
    /\ UNCHANGED <<mgrVars, peerVars, ret, locVars, closeVars, tick, lsRet, sendRet,
                   sendDropped, sendHadRoom, sendBegan, gameVars, envVars>>

Tick(lim) == TickLatest(lim) \/ TickSend1 \/ TickSend2 \/ TickSend3 \/ TickErr1 \/ TickErr2

----------------------------------------------------------------------------
\* Manager.Close is called by goroutine c.
CloseCall(c) ==
    /\ Alive /\ pc[c] = "idle"
    /\ clAfter' = [clAfter EXCEPT ![c] = \E d \in Closers : clRet[d] # "none"]
    /\ pc' = [pc EXCEPT ![c] = "do"]
    /\ UNCHANGED <<mgrVars, peerVars, ret, locVars, clResult, clRet, clLnErr,
                   clPeerErr, bodyRuns, tickVars, gameVars, envVars>>

\* No Once: every caller runs the body.
OnceAlways(o) == TRUE

\* sync.Once: the body runs for the first caller only.
OnceIsNew(o) == o = "new"

\* m.closeOnce.Do: the first caller enters the body and closes m.closed; a
\* caller that finds the body running waits; one that finds it done skips it.
CloseDo(c) ==
    /\ Alive /\ pc[c] = "do"
    /\ \/ /\ OnceIsNew(closeOnce)
          /\ closeOnce' = "running" /\ m_closed' = TRUE
          /\ bodyRuns' = bodyRuns + 1
          /\ pc' = [pc EXCEPT ![c] = "swap"]
       \/ /\ closeOnce = "done"
          /\ pc' = [pc EXCEPT ![c] = "ret"]
          /\ UNCHANGED <<closeOnce, m_closed, bodyRuns>>
    /\ UNCHANGED <<mode, estRet, m_peer, m_listener, m_err, lnClosed, peerVars, ret, locVars,
                   clResult, clRet, clAfter, clLnErr, clPeerErr, tickVars, gameVars, envVars>>

\* listener := m.swapListener(nil)
CloseSwap(c) ==
    /\ Alive /\ pc[c] = "swap"
    /\ m_listener' = FALSE
    /\ pc' = [pc EXCEPT ![c] = IF m_listener THEN "lnClose" ELSE "getPeer"]
    /\ UNCHANGED <<mode, estRet, m_peer, m_closed, m_err, closeOnce, lnClosed, peerVars, ret,
                   locVars, closeVars, tickVars, gameVars, envVars>>

\* What Manager.Close keeps of the error listener.Close returned.
CloseTakeListenerErr(r, e) == IF e # Nil /\ ~IsNetClosed(e) THEN e ELSE r

\* err := listener.Close(): net.ErrClosed when the accept goroutine closed
\* it before, otherwise success or a failure of the OS.
CloseListener(c) ==
    /\ Alive /\ pc[c] = "lnClose"
    /\ \E e \in (IF lnClosed THEN {ErrNetClosed} ELSE {Nil, ErrListener}) :
          /\ clLnErr' = e
          /\ clResult' = [clResult EXCEPT ![c] = CloseTakeListenerErr(@, e)]
    /\ lnClosed' = TRUE
    /\ pc' = [pc EXCEPT ![c] = "getPeer"]
    /\ UNCHANGED <<mode, estRet, m_peer, m_listener, m_closed, m_err, closeOnce, peerVars, ret,
                   locVars, clRet, clAfter, clPeerErr, bodyRuns, tickVars, gameVars, envVars>>

\* Close that also drops the peer reference, as it drops the listener.
CloseGetPeerClears(c) ==
    /\ Alive /\ pc[c] = "getPeer"
    /\ pc' = [pc EXCEPT ![c] = IF m_peer THEN "pclose" ELSE "onceDone"]
    /\ ret' = [ret EXCEPT ![c] = "onceDone"]
    /\ m_peer' = FALSE
    /\ UNCHANGED <<mode, estRet, m_listener, m_closed, m_err, closeOnce, lnClosed, peerVars,
                   locVars, closeVars, tickVars, gameVars, envVars>>

\* if peer := m.getPeer(); peer != nil { peer.close() }
CloseGetPeer(c) ==
    /\ Alive /\ pc[c] = "getPeer"
    /\ pc' = [pc EXCEPT ![c] = IF m_peer THEN "pclose" ELSE "onceDone"]
    /\ ret' = [ret EXCEPT ![c] = "onceDone"]
    /\ UNCHANGED <<mgrVars, peerVars, locVars, closeVars, tickVars, gameVars, envVars>>

\* A Close that waits for the goroutines of the package to return before
\* it leaves the teardown.
CloseOnceDoneWaits(c) ==
    /\ Alive /\ pc[c] = "onceDone"
    /\ \A g \in {"reader", "writer", "accept"} : pc[g] \in {"off", "done"}
    /\ closeOnce' = "done"
    /\ pc' = [pc EXCEPT ![c] = "ret"]
    /\ UNCHANGED <<mode, estRet, m_peer, m_listener, m_closed, m_err, lnClosed, peerVars, ret,
                   locVars, closeVars, tickVars, gameVars, envVars>>

\* The body returns: the Once is done and waiting callers are released.
CloseOnceDone(c) ==
    /\ Alive /\ pc[c] = "onceDone"
    /\ closeOnce' = "done"
    /\ pc' = [pc EXCEPT ![c] = "ret"]
    /\ UNCHANGED <<mode, estRet, m_peer, m_listener, m_closed, m_err, lnClosed, peerVars, ret,
                   locVars, closeVars, tickVars, gameVars, envVars>>

\* return result
CloseReturn(c) ==
    /\ Alive /\ pc[c] = "ret"
    /\ clRet' = [clRet EXCEPT ![c] = clResult[c]]
    /\ pc' = [pc EXCEPT ![c] = "done"]
    /\ UNCHANGED <<mgrVars, peerVars, ret, locVars, clResult, clAfter, clLnErr,
                   clPeerErr, bodyRuns, tickVars, gameVars, envVars>>

Close(c) ==
    \/ CloseCall(c) \/ CloseDo(c) \/ CloseSwap(c) \/ CloseListener(c)
    \/ CloseGetPeer(c) \/ PeerClose(c) \/ CloseOnceDone(c) \/ CloseReturn(c)

----------------------------------------------------------------------------
\* acceptOnce: listener := m.getListener(); nil ends the goroutine.
AcceptGetListener ==
    /\ Alive /\ pc["accept"] = "getListener"
    /\ pc' = [pc EXCEPT !["accept"] = IF m_listener THEN "accept" ELSE "done"]
    /\ UNCHANGED <<mgrVars, peerVars, ret, locVars, closeVars, tickVars, gameVars, envVars>>

\* acceptOnce: conn, err := listener.Accept().  The call blocks until a
\* connection is in the backlog, the listener is closed (net.ErrClosed, not
\* recorded) or accepting fails otherwise (recorded with m.setErr).

\* Accept returns the connection that waited in the backlog.
AcceptConn ==
    /\ Alive /\ pc["accept"] = "accept"
    /\ ~lnClosed /\ conn = "pending"
    /\ conn' = "open"
    /\ pc' = [pc EXCEPT !["accept"] = "isClosed"]
    /\ UNCHANGED <<mgrVars, peerVars, ret, locVars, closeVars, tickVars, gameVars,
                   wireIn, wireOut, inEnd, outFault, rsent, rLatest, rHasData>>

\* The errors.Is test left out: the failure of a closed listener is recorded.
AcceptErrClosedRecorded ==
    /\ Alive /\ pc["accept"] = "accept"
    /\ lnClosed
    /\ m_err' = SetErr(m_err, ErrNetClosed)
    /\ pc' = [pc EXCEPT !["accept"] = "deferClose"]
    /\ UNCHANGED <<mode, estRet, m_peer, m_listener, m_closed, closeOnce, lnClosed, peerVars,
                   ret, locVars, closeVars, tickVars, gameVars, envVars>>

\* Accept fails with net.ErrClosed: if !errors.Is(err, net.ErrClosed) skips
\* m.setErr; return.
AcceptErrClosed ==
    /\ Alive /\ pc["accept"] = "accept"
    /\ lnClosed
    /\ pc' = [pc EXCEPT !["accept"] = "deferClose"]
    /\ UNCHANGED <<mgrVars, peerVars, ret, locVars, closeVars, tickVars, gameVars, envVars>>

\* An accept loop: the failure is recorded and Accept is called again.
AcceptErrRetry ==
    /\ Alive /\ pc["accept"] = "accept"
    /\ ~lnClosed
    /\ m_err' = SetErr(m_err, ErrAccept)
    /\ UNCHANGED <<mode, estRet, m_peer, m_listener, m_closed, closeOnce, lnClosed,
                   peerVars, pc, ret, locVars, closeVars, tickVars, gameVars, envVars>>

\* An accept failure that is dropped instead of recorded.
AcceptErrUnrecorded ==
    /\ Alive /\ pc["accept"] = "accept"
    /\ ~lnClosed
    /\ pc' = [pc EXCEPT !["accept"] = "deferClose"]
    /\ UNCHANGED <<mgrVars, peerVars, ret, locVars, closeVars, tickVars, gameVars, envVars>>

\* Accept fails for another reason: m.setErr(err); return.
AcceptErr ==
    /\ Alive /\ pc["accept"] = "accept"
    /\ ~lnClosed
    /\ m_err' = SetErr(m_err, ErrAccept)
    /\ pc' = [pc EXCEPT !["accept"] = "deferClose"]
    /\ UNCHANGED <<mode, estRet, m_peer, m_listener, m_closed, closeOnce, lnClosed, peerVars,
                   ret, locVars, closeVars, tickVars, gameVars, envVars>>

AcceptAccept == AcceptConn \/ AcceptErrClosed \/ AcceptErr

\* Manager.isClosed: select { case <-m.closed: true; default: false }
IsClosed == m_closed

\* acceptOnce: if m.isClosed() { _ = conn.Close(); return }
AcceptIsClosed ==
    /\ Alive /\ pc["accept"] = "isClosed"
    /\ IF IsClosed
          THEN /\ conn' = "rejected"
               /\ pc' = [pc EXCEPT !["accept"] = "deferClose"]
          ELSE /\ conn' = conn
               /\ pc' = [pc EXCEPT !["accept"] = "newPeer"]
    /\ UNCHANGED <<mgrVars, peerVars, ret, locVars, closeVars, tickVars, gameVars, wireIn,
                   wireOut, inEnd, outFault, rsent, rLatest, rHasData>>

\* A newPeer that starts the writeLoop only.
AcceptNewPeerNoReader ==
    /\ Alive /\ pc["accept"] = "newPeer"
    /\ pc' = [pc EXCEPT !["accept"] = "bind", !["writer"] = "select"]
    /\ UNCHANGED <<mgrVars, peerVars, ret, locVars, closeVars, tickVars, gameVars, envVars>>

\* acceptOnce: newPeer := newPeer(conn): readLoop and writeLoop start.
AcceptNewPeer ==
    /\ Alive /\ pc["accept"] = "newPeer"
    /\ pc' = [pc EXCEPT !["accept"] = "bind", !["reader"] = "decode",
                        !["writer"] = "select"]
    /\ UNCHANGED <<mgrVars, peerVars, ret, locVars, closeVars, tickVars, gameVars, envVars>>

\* acceptOnce: m.mu.Lock(); if m.peer != nil { unlock; newPeer.close();
\* return }; m.peer = newPeer; unlock.
AcceptBind ==
    /\ Alive /\ pc["accept"] = "bind"
    /\ IF m_peer
          THEN /\ pc' = [pc EXCEPT !["accept"] = "pclose"]
               /\ ret' = [ret EXCEPT !["accept"] = "deferClose"]
               /\ UNCHANGED m_peer
          ELSE /\ m_peer' = TRUE
               /\ pc' = [pc EXCEPT !["accept"] = "deferClose"]
               /\ UNCHANGED ret
    /\ UNCHANGED <<mode, estRet, m_listener, m_closed, m_err, closeOnce, lnClosed, peerVars,
                   locVars, closeVars, tickVars, gameVars, envVars>>

\* acceptOnce without its deferred listener.Close().
AcceptNoDeferClose ==
    /\ Alive /\ pc["accept"] = "deferClose"
    /\ pc' = [pc EXCEPT !["accept"] = "done"]
    /\ UNCHANGED <<mgrVars, peerVars, ret, locVars, closeVars, tickVars, gameVars, envVars>>

\* acceptOnce: defer listener.Close() (its error is ignored).
AcceptDeferClose ==
    /\ Alive /\ pc["accept"] = "deferClose"
    /\ lnClosed' = TRUE
    /\ pc' = [pc EXCEPT !["accept"] = "done"]
    /\ UNCHANGED <<mode, estRet, m_peer, m_listener, m_closed, m_err, closeOnce, peerVars,
                   ret, locVars, closeVars, tickVars, gameVars, envVars>>

Accept ==
    \/ AcceptGetListener \/ AcceptAccept \/ AcceptIsClosed \/ AcceptNewPeer
    \/ AcceptBind \/ PeerClose("accept") \/ AcceptDeferClose

----------------------------------------------------------------------------
\* The remote end and the network.

\* A client dials the listener: the connection waits in the backlog.
RemoteJoin ==
    /\ Alive /\ mode = "host" /\ estRet = <<TRUE, Nil>> /\ conn = "none" /\ ~lnClosed
    /\ conn' = "pending"
    /\ UNCHANGED <<mgrVars, peerVars, pc, ret, locVars, closeVars, tickVars, gameVars, wireIn,
                   wireOut, inEnd, outFault, rsent, rLatest, rHasData>>

\* The remote writeLoop encodes snapshot s, the next its game sent, onto
\* the wire (the remote game sends lim snapshots).
RemoteEncode(s, lim) ==
    /\ Alive /\ conn \in {"pending", "open"} /\ inEnd = "none"
    /\ rsent < lim /\ Len(wireIn) < WireCap
    /\ rsent' = rsent + 1
    /\ wireIn' = Append(wireIn, Encode(s))
    /\ UNCHANGED <<mgrVars, peerVars, pc, ret, locVars, closeVars, tickVars, gameVars, conn,
                   wireOut, inEnd, outFault, rLatest, rHasData>>

RemoteWriteUpTo(lim) == RemoteEncode(RemoteState(rsent + 1), lim)

RemoteWrite == RemoteWriteUpTo(MaxRemote)

\* Snapshots of every shape: float64 fields negative, zero and positive,
\* whole and fractional; both values of the flags; the bullet slice nil,
\* empty, and non-empty with its elements in either order.
Floats == {0 - 7, 0 - 2, 0, 1, 6}
SampleBullet1 == BulletState(5, 0 - 3, 2)
SampleBullet2 == BulletState(0 - 1, 4, 0)
BulletLists ==
    {NilSlice, Slice(<<>>), Slice(<<SampleBullet1>>),
     Slice(<<SampleBullet1, SampleBullet2>>), Slice(<<SampleBullet2, SampleBullet1>>)}
Samples ==
    {[Player |-> PlayerState(x, 0 - x, x + 1, 2 - x, g, ~g), Bullets |-> bs] :
        x \in Floats, g \in BOOLEAN, bs \in BulletLists}

\* The remote game sends any snapshot.
RemoteWriteAny == \E s \in Samples : RemoteEncode(s, MaxRecords)

\* The remote readLoop decodes one record and replaces its cache.
RemoteRead ==
    /\ Alive /\ wireOut # <<>>
    /\ rLatest' = Decode(Head(wireOut)) /\ rHasData' = TRUE
    /\ wireOut' = Tail(wireOut)
    /\ UNCHANGED <<mgrVars, peerVars, pc, ret, locVars, closeVars, tickVars, gameVars, conn,
                   wireIn, inEnd, outFault, rsent>>

\* The remote closes its end cleanly: the inbound stream ends after what is
\* in flight, and local writes fail from now on.
RemoteEnd ==
    /\ Alive /\ conn \in {"pending", "open"} /\ inEnd = "none"
    /\ inEnd' = "eof" /\ outFault' = TRUE
    /\ UNCHANGED <<mgrVars, peerVars, pc, ret, locVars, closeVars, tickVars, gameVars, conn,
                   wireIn, wireOut, rsent, rLatest, rHasData>>

\* The connection is severed: reads and writes fail; records in flight may
\* be lost.
Sever ==
    /\ Alive /\ conn = "open" /\ inEnd = "none"
    /\ inEnd' = "reset" /\ outFault' = TRUE
    /\ \E lose \in BOOLEAN : wireIn' = IF lose THEN <<>> ELSE wireIn
    /\ UNCHANGED <<mgrVars, peerVars, pc, ret, locVars, closeVars, tickVars, gameVars, conn,
                   wireOut, rsent, rLatest, rHasData>>

----------------------------------------------------------------------------
\* Everything together: a Manager from Host or Join, its goroutines, the
\* game loop, the Close callers and the environment.  The scenarios below
\* restrict Init and Next, so each of their behaviours is one of Spec.
Next ==
    \/ Tick(MaxSends)
    \/ Reader
    \/ Writer
    \/ Accept
    \/ \E c \in Closers : Close(c)
    \/ RemoteJoin
    \/ RemoteWrite
    \/ RemoteRead
    \/ RemoteEnd
    \/ Sever

Spec == Init /\ [][Next]_vars

\* Pipeline scenario: a joined Manager that is never closed, on a healthy
\* connection, with a game long enough to overflow the queue.
NextPipe ==
    \/ Tick(MaxSends)
    \/ ReaderDecode \/ ReaderStore
    \/ WriterSelect \/ WriterEncode
    \/ RemoteWrite
    \/ RemoteRead

SpecPipe == InitJoin /\ [][NextPipe]_vars

\* Session scenario: a joined Manager in a short game, with transport faults
\* and one Close call.  A game of MaxTicks < defaultSendBufferSize ticks never
\* fills the queue, so the overflow path of send is left out, as is the
\* listener a joined Manager never has.  The remote does not read here: the
\* connection's buffers hold all that so short a game writes.
NextJoin ==
    \/ TickLatest(MaxTicks) \/ TickSend1 \/ TickErr1 \/ TickErr2
    \/ Reader
    \/ Writer
    \/ CloseCall("close1") \/ CloseDo("close1") \/ CloseSwap("close1")
    \/ CloseGetPeer("close1") \/ PeerClose("close1")
    \/ CloseOnceDone("close1") \/ CloseReturn("close1")
    \/ RemoteWrite
    \/ RemoteEnd
    \/ Sever

SpecJoin == InitJoin /\ [][NextJoin]_vars

\* Accept scenario: a hosting Manager in a short game, the accept goroutine
\* racing one Close call, on a healthy connection.
NextHost ==
    \/ TickLatest(MaxTicks) \/ TickSend1 \/ TickErr1 \/ TickErr2
    \/ Reader
    \/ Writer
    \/ Accept
    \/ Close("close1")
    \/ RemoteJoin
    \/ RemoteWrite

SpecHost == InitHost /\ [][NextHost]_vars

\* Teardown scenario: a Manager from Host or Join closed by all the Close
\* callers, with no game running and no snapshot on the wire.
NextClose ==
    \/ ReaderDecode \/ ReaderSetErr \/ PeerClose("reader")
    \/ WriterSelect
    \/ Accept
    \/ \E c \in Closers : Close(c)
    \/ RemoteJoin
    \/ RemoteEnd

SpecClose == Init /\ [][NextClose]_vars

\* Fault scenario: a joined Manager in a short game whose connection the
\* remote ends or the network severs; nobody calls Close.
NextSever ==
    \/ TickLatest(MaxTicks) \/ TickSend1 \/ TickErr1 \/ TickErr2
    \/ Reader
    \/ Writer
    \/ RemoteWrite
    \/ RemoteEnd
    \/ Sever

SpecSever == InitJoin /\ [][NextSever]_vars

\* Meeting scenario: a hosting Manager in a short game that nobody closes;
\* a client may join and send, the accept call does not fail and the
\* connection stays healthy.
AcceptNoFault ==
    \/ AcceptGetListener \/ AcceptConn \/ AcceptIsClosed \/ AcceptNewPeer
    \/ AcceptBind \/ AcceptDeferClose

NextMeet ==
    \/ TickLatest(MaxTicks) \/ TickSend1 \/ TickErr1 \/ TickErr2
    \/ ReaderDecode \/ ReaderStore
    \/ WriterSelect \/ WriterEncode
    \/ AcceptNoFault
    \/ RemoteJoin
    \/ RemoteWrite

SpecMeet == InitHost /\ [][NextMeet]_vars

\* Idle-host scenario: a hosting Manager that no client ever dials, closed
\* by the Close callers; the accept call fails only because the listener
\* was closed.  Without a peer Close never reaches peer.close.
AcceptUnvisited == AcceptGetListener \/ AcceptErrClosed \/ AcceptDeferClose

NextIdleHost ==
    \/ AcceptUnvisited
    \/ \E c \in Closers :
          \/ CloseCall(c) \/ CloseDo(c) \/ CloseSwap(c) \/ CloseListener(c)
          \/ CloseGetPeer(c) \/ CloseOnceDone(c) \/ CloseReturn(c)

SpecIdleHost == InitHost /\ [][NextIdleHost]_vars

\* Establishment scenario: Host or Join is called and fails or succeeds;
\* a Manager that was made is then torn down as in the teardown scenario.
NextEstablish ==
    \/ Host
    \/ Join
    \/ NextClose

SpecEstablish == InitCall /\ [][NextEstablish]_vars

\* Cache scenario: a joined Manager that is never closed, on a healthy
\* connection, polled by a game of MaxPolls ticks while MaxArrivals
\* snapshots arrive.  So short a game never fills the queue.
NextCache ==
    \/ TickLatest(MaxPolls) \/ TickSend1 \/ TickErr1 \/ TickErr2
    \/ ReaderDecode \/ ReaderStore
    \/ WriterSelect \/ WriterEncode
    \/ RemoteWriteUpTo(MaxArrivals)
    \/ RemoteRead

SpecCache == InitJoin /\ [][NextCache]_vars

\* Codec scenario: a joined Manager on a healthy connection receives
\* snapshots of every shape from the remote writer.
NextCodec ==
    \/ RemoteWriteAny
    \/ ReaderDecode \/ ReaderStore

SpecCodec == InitJoin /\ [][NextCodec]_vars

\* Shutdown scenario: a joined Manager whose game sends one snapshot more
\* than the connection's buffers hold while the remote reads nothing, so
\* the writer ends up blocked in a write; the remote may end the stream and
\* one goroutine may call Close.  Nothing arrives, so the reader never
\* stores, and the queue never fills.
NextShutdown ==
    \/ TickLatest(WireCap + 1) \/ TickSend1 \/ TickErr1 \/ TickErr2
    \/ ReaderDecode \/ ReaderSetErr \/ PeerClose("reader")
    \/ Writer
    \/ CloseCall("close1") \/ CloseDo("close1") \/ CloseSwap("close1")
    \/ CloseGetPeer("close1") \/ PeerClose("close1")
    \/ CloseOnceDone("close1") \/ CloseReturn("close1")
    \/ RemoteEnd

SpecShutdown == InitJoin /\ [][NextShutdown]_vars

\* acceptOnce while the listener is open: Accept returns a connection or
\* fails for a reason other than the listener's closing.
AcceptOpen ==
    \/ AcceptGetListener \/ AcceptConn \/ AcceptErr \/ AcceptIsClosed \/ AcceptNewPeer
    \/ AcceptBind \/ PeerClose("accept") \/ AcceptDeferClose

\* Error scenario: a Manager from Host or Join in a short game that nobody
\* closes; the accept call may fail, the remote may end the stream and the
\* network may sever the connection, so that the accept goroutine, the
\* reader and the writer meet different faults.
NextSticky ==
    \/ NextSever
    \/ AcceptOpen
    \/ RemoteJoin

SpecSticky == Init /\ [][NextSticky]_vars

\* Stall scenario: the shutdown scenario for a Manager from Join, or a
\* Manager from Host that no client dials: its accept goroutine waits in
\* Accept until the listener is closed, and Close closes the listener.
NextStall ==
    \/ NextShutdown
    \/ AcceptUnvisited
    \/ CloseListener("close1")

SpecStall == Init /\ [][NextStall]_vars

----------------------------------------------------------------------------
\* Scheduling: every goroutine that can take a step eventually does, and
\* the remote keeps reading.  Nothing obliges the environment to connect,
\* write, end the stream or sever it, nor anyone to call Close.
FairTick == WF_vars(Tick(MaxSends))
FairReader == WF_vars(Reader)
FairWriter == WF_vars(Writer)
FairRemoteRead == WF_vars(RemoteRead)

FairSpecPipe == SpecPipe /\ FairTick /\ FairReader /\ FairWriter /\ FairRemoteRead

FairShortGame == WF_vars(TickLatest(MaxTicks) \/ TickSend1 \/ TickErr1 \/ TickErr2)

FairSpecSever == SpecSever /\ FairShortGame /\ FairReader /\ FairWriter

FairAccept == WF_vars(Accept)

FairAcceptNoFault == WF_vars(AcceptNoFault)

FairSpecMeet == SpecMeet /\ FairShortGame /\ FairAcceptNoFault /\ FairReader /\ FairWriter

FairAcceptUnvisited == WF_vars(AcceptUnvisited)
FairClose == \A c \in Closers : WF_vars(Close(c) /\ pc[c] # "idle")

FairSpecIdleHost == SpecIdleHost /\ FairAcceptUnvisited /\ FairClose

FairSpecClose == SpecClose /\ FairAccept /\ FairClose

FairSpecShutdown == SpecShutdown /\ FairReader /\ FairWriter /\ FairClose

\* Only the Close callers and goroutines inside peer.close, which does not
\* block, are sure to go on: nothing is assumed about a goroutine that is
\* in a read, a write, an Accept or a select.
FairPeerClose == \A g \in {"reader", "writer"} : WF_vars(PeerClose(g))

FairSpecStall == SpecStall /\ FairClose /\ FairPeerClose

----------------------------------------------------------------------------
\* Sanity of the model's state.
LocalStates == {LocalState(n) : n \in 1..(MaxSends + 1)}
RemoteStates == {RemoteState(n) : n \in 1..(MaxRemote + MaxArrivals + 1)}
Errors == {Nil, ErrEOF, ErrNetClosed, ErrReset, ErrWrite, ErrAccept, ErrListener, ErrConn}

TypeOK ==
    /\ mode \in {"host", "join"}
    /\ estRet \in BOOLEAN \X {"none", Nil, ErrListen, ErrDial}
    /\ m_peer \in BOOLEAN /\ m_listener \in BOOLEAN /\ m_closed \in BOOLEAN
    /\ m_err \in Errors /\ p_err \in Errors
    /\ closeOnce \in {"new", "running", "done"} /\ closeFn \in {"new", "running", "done"}
    /\ \A i \in 1..Len(sendCh) : sendCh[i] \in LocalStates
    /\ \A i \in 1..Len(wireOut) : wireOut[i] \in {Encode(x) : x \in LocalStates}
    /\ \A i \in 1..Len(wireIn) : wireIn[i] \in {Encode(x) : x \in RemoteStates \cup Samples}
    /\ latest \in RemoteStates \cup Samples \cup {ZeroState}
    /\ rLatest \in LocalStates \cup {ZeroState}
    /\ tick \in 0..(MaxSends + 1) /\ rsent \in 0..(MaxRemote + 1)
    /\ conn \in {"none", "pending", "open", "rejected"}
    /\ inEnd \in {"none", "eof", "reset"}
    /\ \A c \in Closers : clRet[c] \in Errors \cup {"none"}
    /\ sendRet \in Errors \cup {"none"} /\ errRet \in Errors \cup {"none"}
    /\ sendBegan \in {"none", "new", "running", "done"}
    /\ g_remote \in {NilPlayer, StartPlayer} \cup {ApplyRemotePlayer(x) : x \in RemoteStates}
    /\ g_enemyFire \in {<<>>} \cup {ApplyEnemyFire(<<>>, x) : x \in RemoteStates}

----------------------------------------------------------------------------
\* The game loop is not inside a call of Manager.Send.
SendReturned == pc["tick"] \in {"err1", "err2", "idle", "stopped"} /\ sendRet # "none"

\* C1: a send call on an open peer removes at most one queued snapshot that
\* the writer has not taken, removes none when the queue had room, and
\* sendCh never holds more than defaultSendBufferSize snapshots.
C1_AtMostOneEviction ==
    /\ Len(sendCh) <= defaultSendBufferSize
    /\ sendDropped <= 1
    /\ (sendHadRoom => sendDropped = 0)

\* An overflowing send has returned: it removed one entry and the queue is
\* full again.
C1_Witness ==
    /\ SendReturned /\ ~p_closed
    /\ ~sendHadRoom /\ sendDropped = 1
    /\ Len(sendCh) = defaultSendBufferSize

\* C2: with no closure and under fair scheduling, the snapshot of the last
\* send is eventually what the receiver's latestState returns, and stays so.
C2_FreshestArrives ==
    <>[](pc["tick"] = "idle" /\ tick = MaxSends /\ rHasData /\ rLatest = LocalState(tick))

\* The receiver holds the last snapshot after sends that overflowed the queue
\* had evicted earlier ones: fewer snapshots reached the wire than were sent.
C2_Witness ==
    /\ pc["tick"] = "idle" /\ tick = MaxSends
    /\ rHasData /\ rLatest = LocalState(tick)
    /\ sendCh = <<>> /\ wireOut = <<>> /\ pc["writer"] = "select"
    /\ sendDropped = 1

----------------------------------------------------------------------------
\* The step on which Manager.Send returns to the game loop.
SendReturns ==
    /\ pc["tick"] \in {"send1", "send2", "send3"}
    /\ pc'["tick"] \in {"err1", "stopped"}

----------------------------------------------------------------------------
\* The game loop is inside Manager.Send or Manager.Err, or about to call
\* Manager.LatestState.
InCall(lim) ==
    \/ pc["tick"] \in {"send1", "send2", "send3", "err1", "err2"}
    \/ pc["tick"] = "idle" /\ tick < lim

\* C4: Send, LatestState and Err never wait for the reader or the writer:
\* in every state the game loop's next step can be taken.
C4_CallsNeverBlock == InCall(MaxSends) => ENABLED Tick(MaxSends)

\* Send is on its overflow path while the writer is stuck in a write on
\* full connection buffers with a full queue behind it, and the reader waits
\* for input.
C4_Witness ==
    /\ pc["tick"] = "send2"
    /\ pc["writer"] = "encode" /\ Len(wireOut) = WireCap
    /\ Len(sendCh) = defaultSendBufferSize
    /\ pc["reader"] = "decode" /\ wireIn = <<>>

----------------------------------------------------------------------------
\* The records and snapshots on their way out.
Outbound == {sendCh[i] : i \in 1..Len(sendCh)}
               \cup {Decode(wireOut[i]) : i \in 1..Len(wireOut)}
               \cup (IF pc["writer"] \in {"encode", "setErr"} THEN {wrMsg} ELSE {})

\* C5: with no peer bound, LatestState returns (StateMessage{}, false) and
\* Send returns nil, changes nothing of the Manager and does not keep the
\* snapshot anywhere it could be delivered from.
C5_NoPeerNoEffect ==
    [][/\ (pc["tick"] = "idle" /\ pc'["tick"] = "send1" /\ ~m_peer)
              => lsRet' = <<ZeroState, FALSE>>
       /\ (SendReturns /\ ~m_peer)
              => /\ sendRet' = Nil
                 /\ UNCHANGED <<mgrVars, peerVars, locVars, envVars>>
                 /\ LocalState(tick) \notin Outbound']_vars

\* A host that was closed before any client was bound has answered a tick:
\* nothing to read, Send reported success, while an accepted but unbound
\* peer already holds a snapshot.
C5_Witness ==
    /\ mode = "host" /\ ~m_peer /\ SendReturned
    /\ lsRet = <<ZeroState, FALSE>> /\ sendRet = Nil
    /\ hasData /\ sendCh = <<>>

----------------------------------------------------------------------------
\* Some call of Manager.Close has returned.
CloseReturned == \E c \in Closers : clRet[c] # "none"

\* An error Manager.Close reports: not nil and not net.ErrClosed.
NonBenign(e) == e \notin {"none", Nil} /\ ~IsNetClosed(e)

\* The first non-benign error the teardown met: the listener's, else the
\* peer's, else nil.
FirstNonBenign ==
    IF NonBenign(clLnErr) THEN clLnErr
    ELSE IF NonBenign(clPeerErr) THEN clPeerErr ELSE Nil

\* C6: whatever the number of Close calls, the teardown body runs exactly
\* once, at most one call returns an error and it is the first non-benign
\* error of the teardown (one call returns it once all have returned), and a
\* call that starts after a Close returned returns nil.
C6_CloseIdempotent ==
    /\ bodyRuns <= 1
    /\ CloseReturned => bodyRuns = 1
    /\ Cardinality({c \in Closers : clRet[c] \notin {"none", Nil}}) <= 1
    /\ \A c \in Closers : clRet[c] \notin {"none", Nil} => clRet[c] = FirstNonBenign
    /\ (\A c \in Closers : clRet[c] # "none")
          => \E c \in Closers : clRet[c] = FirstNonBenign
    /\ \A c \in Closers : clAfter[c] /\ clRet[c] # "none" => clRet[c] = Nil

\* Every Close call has returned; the teardown met a listener error and then
\* a peer error, one call returned the listener's, and a call that started
\* after it had returned got nil.
C6_Witness ==
    /\ \A c \in Closers : clRet[c] # "none"
    /\ clLnErr = ErrListener /\ clPeerErr = ErrConn
    /\ \E c \in Closers : clRet[c] = ErrListener
    /\ \E c \in Closers : clAfter[c] /\ clRet[c] = Nil

----------------------------------------------------------------------------
\* C7: a Manager whose Close has returned never holds a peer that is still
\* open (an accepted connection is bound only to a Manager not yet closed).
C7_NoOpenPeerAfterClose == (CloseReturned /\ m_peer) => p_closed

----------------------------------------------------------------------------
\* C8: the peer reference is set at most once (by Join at construction or by
\* the accept goroutine's bind), is never cleared afterwards, not by Close
\* either, and a Manager from Join has its peer from the start and never a
\* listener.
C8_PeerBoundOnce ==
    /\ [][/\ m_peer => m_peer'
          /\ m_peer' # m_peer => mode = "host" /\ pc["accept"] = "bind"]_vars
    /\ [](mode = "join" => m_peer /\ ~m_listener)

\* A host bound its peer and every Close call has returned: the peer is
\* still referenced.
C8_Witness ==
    /\ mode = "host" /\ m_peer
    /\ \A c \in Closers : clRet[c] # "none"

----------------------------------------------------------------------------
\* C9 as claimed: no state has both a listener reference and a bound peer.
C9_ListenerXorPeer == ~(m_listener /\ m_peer)

\* C9, amended: the accept goroutine keeps the listener reference when it
\* binds the peer and closes the listener as it returns, so a state with a
\* listener reference and a bound peer has the listener closed or the accept
\* goroutine at its deferred listener.Close; only Close discards the
\* reference, which is nil once a Close has returned.
C9_ListenerClosedOrCleared ==
    /\ (m_listener /\ m_peer) => (lnClosed \/ pc["accept"] = "deferClose")
    /\ (pc["accept"] = "done" /\ m_peer) => lnClosed
    /\ CloseReturned => ~m_listener

\* The accept goroutine has bound the peer and ended; the Manager still
\* refers to the listener, which is closed.
C9_Witness ==
    /\ m_listener /\ m_peer /\ lnClosed /\ pc["accept"] = "done"
    /\ ~m_closed

----------------------------------------------------------------------------
\* The connection has been ended by the remote or severed.
Severed == inEnd # "none"

\* C10: after the connection is severed, closure never clears or resets the
\* cache (it changes only when the reader stores a decoded snapshot, so
\* LatestState keeps its value once the reader has met the fault), Err
\* eventually is and stays non-nil, and neither call waits.
C10_CacheKeptErrSticks ==
    /\ [][/\ hasData => hasData'
          /\ (latest' # latest \/ hasData' # hasData)
                => pc["reader"] = "store" /\ hasData' /\ latest' = rdMsg
          /\ pc["reader"] \notin {"decode", "store"} => LatestState' = LatestState]_vars
    /\ [](Severed => <>[](ErrValue # Nil))
    /\ [](InCall(MaxTicks) => ENABLED (TickLatest(MaxTicks) \/ TickSend1 \/ TickErr1 \/ TickErr2))

\* The connection was severed after a snapshot had been cached: the reader
\* recorded the fault and closed the peer, LatestState still returns the
\* snapshot and Err the fault.
C10_Witness ==
    /\ inEnd = "reset" /\ pc["reader"] = "done" /\ connClosed
    /\ LatestState = <<RemoteState(1), TRUE>> /\ ErrValue = ErrReset

----------------------------------------------------------------------------
\* C11: after Host, a client's Join and the client's sends, with no close
\* and no fault and under fair scheduling, the host Manager eventually has
\* a bound peer and its LatestState eventually returns the client's last
\* snapshot with true, and keeps doing so, also when the snapshot was sent
\* before the accept goroutine bound the peer.
C11_HostGetsSnapshot ==
    /\ [](conn = "pending" => <>[]m_peer)
    /\ [](rsent = MaxRemote => <>[](m_peer /\ LatestState = <<RemoteState(MaxRemote), TRUE>>))
    /\ []((rsent = MaxRemote /\ ~m_peer)
            => <>[](m_peer /\ LatestState = <<RemoteState(MaxRemote), TRUE>>))

\* The client's snapshot was sent and even decoded into the cache before the
\* accept goroutine has bound the peer: LatestState still has nothing.
C11_Witness ==
    /\ rsent = MaxRemote /\ ~m_peer /\ pc["accept"] = "bind"
    /\ hasData /\ latest = RemoteState(MaxRemote)
    /\ LatestState = <<ZeroState, FALSE>>

----------------------------------------------------------------------------
\* C12: Host followed by Close with no client ever connecting: a Close call
\* that was made eventually returns, with nil unless listener.Close itself
\* failed in the OS; once it returned the listener is closed and no longer
\* referenced; the accept goroutine's Accept fails and the goroutine ends;
\* and the Manager's error stays nil throughout.
C12_IdleHostCloses ==
    /\ [](m_err = Nil /\ ErrValue = Nil)
    /\ [](\A c \in Closers :
            clRet[c] # "none" => /\ clLnErr # ErrListener => clRet[c] = Nil
                                 /\ lnClosed /\ ~m_listener)
    /\ \A c \in Closers : [](pc[c] = "do" => <>(clRet[c] # "none"))
    /\ [](CloseReturned => <>[](pc["accept"] = "done"))

\* Close has returned nil to every caller while the accept goroutine, whose
\* Accept has just failed on the closed listener, is about to end.
C12_Witness ==
    /\ \A c \in Closers : clRet[c] = Nil
    /\ pc["accept"] = "deferClose" /\ lnClosed /\ ~m_listener
    /\ m_err = Nil /\ conn = "none"

----------------------------------------------------------------------------
\* Host or Join has returned an error.
EstablishFailed == estRet[2] \notin {"none", Nil}

\* C13: when net.Listen in Host or the dial in Join fails, the call itself
\* returns (nil, the error): no Manager is returned with an error, no peer is
\* made, no listener is held, no connection exists, and no accept goroutine,
\* reader, writer or anything else of the package runs then or later.
C13_FailureMakesNothing ==
    /\ [](estRet[1] => estRet[2] = Nil)
    /\ [](EstablishFailed =>
            /\ ~estRet[1] /\ ~m_peer /\ ~m_listener /\ conn = "none"
            /\ \A p \in Procs : pc[p] = "off"
            /\ estRet[2] = (IF mode = "host" THEN ErrListen ELSE ErrDial))
    /\ [][/\ estRet' # estRet => estRet = <<FALSE, "none">>
          /\ EstablishFailed => UNCHANGED vars]_vars

\* Join has returned the dial failure and no Manager.
C13_Witness == mode = "join" /\ estRet = <<FALSE, ErrDial>>


----------------------------------------------------------------------------
\* The Accept call of acceptOnce has returned and the goroutine has not
\* ended yet.
AcceptReturned ==
    pc["accept"] \in {"isClosed", "newPeer", "bind", "pclose", "pclose2", "pclose3",
                      "deferClose"}

\* C14: the accept goroutine calls Accept at most once (it reaches the call
\* only from its start, never again after the call returned, and a recorded
\* failure sends it to its exit), it ends after the call returned, and when
\* it has ended the listener is closed on every path that obtained it: only
\* a goroutine that found the reference already nil ends with the listener
\* still open, in the hands of the Close call that took it.
C14_AcceptOnceThenReleased ==
    /\ [][/\ pc'["accept"] = "accept" => pc["accept"] \in {"getListener", "accept"}
          /\ pc'["accept"] = "getListener" => pc["accept"] = "getListener"
          /\ pc["accept"] = "done" => pc'["accept"] = "done"
          /\ (pc["accept"] = "accept" /\ (m_err' # m_err \/ conn' = "open"))
                => pc'["accept"] # "accept"]_vars
    /\ []((pc["accept"] = "done" /\ ~lnClosed)
            => ~m_listener /\ \E c \in Closers : pc[c] = "lnClose")
    /\ [](AcceptReturned => <>(pc["accept"] = "done"))

\* Accept failed, the goroutine recorded the failure and ended; nobody has
\* called Close, so it is the goroutine's deferred Close that closed the
\* listener, while a client still waits in the backlog.
C14_Witness ==
    /\ pc["accept"] = "done" /\ m_err = ErrAccept /\ lnClosed
    /\ closeOnce = "new" /\ conn = "pending"

----------------------------------------------------------------------------
\* The step on which Accept returns a failure other than net.ErrClosed.
AcceptFails ==
    pc["accept"] = "accept" /\ pc'["accept"] = "deferClose" /\ ~lnClosed

\* C15: an accept failure other than that of a closed listener is recorded
\* as the Manager's error; from then on the error does not change, Err
\* returns it (to every call that starts after the failure), and no peer is
\* bound to the Manager.
C15_AcceptFailureSticks ==
    /\ [][/\ AcceptFails => m_err' = ErrAccept
          /\ m_err # Nil => m_err' = m_err
          /\ (pc["tick"] = "err1" /\ pc'["tick"] # "err1" /\ m_err = ErrAccept)
                => errRet' = ErrAccept]_vars
    /\ [](m_err = ErrAccept => ErrValue = ErrAccept /\ ~m_peer)

\* The game loop's Err call has returned the accept failure; a client that
\* dialled waits in the backlog and is never accepted.
C15_Witness ==
    /\ errRet = ErrAccept /\ pc["tick"] = "stopped"
    /\ m_err = ErrAccept /\ ~m_peer /\ conn = "pending"
    /\ pc["accept"] = "done"

----------------------------------------------------------------------------
\* C16: an Err call returns the Manager's own error when its first read
\* finds one, whatever the peer holds; otherwise the error of the bound
\* peer if a peer is bound and has one; otherwise nil.  A Manager with an
\* error of its own never has a peer, so a failure recorded between the two
\* reads does not change what the call returns.
C16_ErrPrecedence ==
    /\ [][/\ (pc["tick"] = "err1" /\ pc'["tick"] # "err1" /\ m_err # Nil)
                => errRet' = m_err /\ pc'["tick"] = "stopped"
          /\ (pc["tick"] = "err1" /\ pc'["tick"] # "err1" /\ m_err = Nil)
                => pc'["tick"] = "err2" /\ errRet' = errRet
          /\ (pc["tick"] = "err2" /\ pc'["tick"] # "err2")
                => errRet' = (IF m_peer /\ p_err # Nil THEN p_err ELSE Nil)]_vars
    /\ [](m_err # Nil => ~m_peer)

\* Send had succeeded on the open peer; the peer was then closed and its
\* reader recorded the failed read; the Manager has no error of its own and
\* Err returned the peer's.
C16_Witness ==
    /\ pc["tick"] = "stopped" /\ sendRet = Nil
    /\ m_err = Nil /\ m_peer /\ p_err = ErrNetClosed
    /\ errRet = ErrNetClosed

----------------------------------------------------------------------------
\* The step on which the game loop calls Manager.LatestState.
CallsLatest == pc["tick"] = "idle" /\ pc'["tick"] # "idle"

\* C17 as claimed: the loop pushes before it pulls, so by the time a
\* LatestState call has been made (tick counts them) a Send call has
\* returned.
C17_PushBeforePull == tick >= 1 => sendRet # "none"

\* C17, amended: in every tick the loop first pulls (LatestState), then
\* pushes (Send), then polls (Err): a tick starts with the LatestState call,
\* Send is entered only from there, Err is entered only when Send returned
\* nil (an error from Send ends the game unpolled), and the tick ends only
\* when Err returned nil.
C17_PullPushPoll ==
    [][/\ CallsLatest
             => pc'["tick"] = "send1" /\ lsRet' = LatestState /\ tick' = tick + 1
       /\ tick' # tick => CallsLatest
       /\ (pc'["tick"] = "send1" /\ pc["tick"] # "send1") => CallsLatest
       /\ (pc'["tick"] = "err1" /\ pc["tick"] # "err1")
             => SendReturns /\ sendRet' = Nil
       /\ (SendReturns /\ sendRet' # Nil)
             => pc'["tick"] = "stopped" /\ errRet' = errRet
       /\ errRet' # errRet => pc["tick"] \in {"err1", "err2"}
       /\ (pc'["tick"] = "idle" /\ pc["tick"] # "idle")
             => pc["tick"] = "err2" /\ errRet' = Nil]_vars

\* A whole tick has run: LatestState returned the remote's snapshot, then
\* Send returned nil, then Err returned nil.
C17_Witness ==
    /\ pc["tick"] = "idle" /\ tick = 1
    /\ lsRet = <<RemoteState(1), TRUE>> /\ sendRet = Nil /\ errRet = Nil

----------------------------------------------------------------------------
\* The goroutines that can call peer.close.
PeerClosers == {"reader", "writer", "accept"} \cup Closers

\* C18: whichever of the reader, the writer, Manager.Close and the accept
\* goroutine call peer.close, and however they interleave, close(p.closed),
\* close(p.sendCh) and p.conn.Close() are each executed exactly once: each
\* is executed on a channel or connection not closed before (so no close
\* of a closed channel), by one caller at a time, all three have happened
\* when the Once is done, and a caller that finds the Once done returns
\* without touching the peer.
C18_PeerClosedOnce ==
    /\ [][\A self \in PeerClosers :
            /\ (pc[self] = "pclose" /\ pc'[self] = "pclose2")
                  => closeFn = "new" /\ ~p_closed /\ ~sendChClosed /\ ~connClosed
            /\ (pc[self] = "pclose2" /\ pc'[self] # "pclose2")
                  => pc'[self] = "pclose3" /\ ~sendChClosed /\ ~connClosed
            /\ (pc[self] = "pclose3" /\ pc'[self] # "pclose3")
                  => ~connClosed /\ connClosed' /\ closeFn' = "done"
            /\ (pc[self] = "pclose" /\ pc'[self] \notin {"pclose", "pclose2"})
                  => closeFn = "done" /\ UNCHANGED peerVars]_vars
    /\ [][/\ p_closed => p_closed'
          /\ sendChClosed => sendChClosed'
          /\ connClosed => connClosed']_vars
    /\ [](Cardinality({self \in PeerClosers : pc[self] \in {"pclose2", "pclose3"}}) <= 1)
    /\ [](closeFn = "done" => p_closed /\ sendChClosed /\ connClosed)
    /\ [](closeFn = "new" => ~p_closed /\ ~sendChClosed /\ ~connClosed)

\* The reader's read failed, the writer's write failed and Manager.Close was
\* called: all three have been through peer.close and returned, and the
\* peer is closed.
C18_Witness ==
    /\ closeFn = "done" /\ p_closed /\ sendChClosed /\ connClosed
    /\ pc["reader"] = "done" /\ ioErr["reader"] # Nil
    /\ pc["writer"] = "done" /\ ioErr["writer"] # Nil
    /\ clRet["close1"] # "none" /\ clPeerErr # "none"

----------------------------------------------------------------------------
\* Snapshots the reader has taken off the wire, and those it has stored.
Taken == rsent - Len(wireIn)
Stored == IF pc["reader"] = "store" THEN Taken - 1 ELSE Taken

\* C19: LatestState returns (StateMessage{}, false) until the reader has
\* stored its first decoded snapshot and from then on the whole snapshot
\* stored last, with true; every value a call returned is the cache as it
\* was at the call, so it is the zero value or one whole snapshot the
\* remote sent, never fields of two; the flag never goes back to false,
\* neither in the cache nor from one call to the next.
C19_CacheWholeAndMonotone ==
    /\ [](LatestState = IF Stored = 0 THEN <<ZeroState, FALSE>>
                        ELSE <<RemoteState(Stored), TRUE>>)
    /\ [](lsRet \in {<<ZeroState, FALSE>>}
                      \cup {<<RemoteState(n), TRUE>> : n \in 1..rsent})
    /\ [][/\ hasData => hasData'
          /\ lsRet[2] => lsRet'[2]
          /\ CallsLatest => lsRet' = LatestState]_vars

\* A LatestState call returned the first snapshot; the reader has since
\* replaced it by the second, which shares neither player nor bullets
\* with it, while the game loop is inside its next call.
C19_Witness ==
    /\ lsRet = <<RemoteState(1), TRUE>> /\ LatestState = <<RemoteState(2), TRUE>>
    /\ RemoteState(1).Bullets # RemoteState(2).Bullets
    /\ pc["tick"] = "send1"

----------------------------------------------------------------------------
----------------------------------------------------------------------------
\* C21: whatever the interleaving of peer.send with peer.close, send never
\* executes `p.sendCh <- state` on the closed sendCh: the game loop's Send
\* call never panics.
C21_SendNeverFaults == pc["tick"] # "panic"

----------------------------------------------------------------------------
\* C22: an I/O failure that the peer's own shutdown forces is taken as
\* closure and not as a fault: as long as the remote has not ended the
\* stream and the connection was not severed (so no read, write or
\* stream-end failure of the transport has occurred), the peer's error and
\* what Err returns stay nil, after Manager.Close too.
C22_ShutdownIsNotAFault == inEnd = "none" => (p_err = Nil /\ ErrValue = Nil)

----------------------------------------------------------------------------
\* Both goroutines of the peer have returned.
TasksEnded == pc["reader"] = "done" /\ pc["writer"] = "done"

\* C23: once the peer is closed, whoever closed it, readLoop and writeLoop
\* both eventually return and stay returned: the writer waiting on an empty
\* queue is woken by the closed channels, the writer blocked in a write and
\* the reader blocked in a read are released by the closed connection.  (A
\* panic of the game loop ends the process, and the goroutines with it.)
C23_TasksEndAfterClose ==
    /\ [](p_closed => <>(~Alive \/ TasksEnded))
    /\ [][/\ pc["reader"] = "done" => pc'["reader"] = "done"
          /\ pc["writer"] = "done" => pc'["writer"] = "done"]_vars

\* Manager.Close closed the peer of a healthy session while the writer was
\* blocked in a write on full buffers and the reader in a read: both were
\* released by the closed connection and have returned.
C23_Witness ==
    /\ TasksEnded /\ Alive /\ closeFn = "done" /\ inEnd = "none"
    /\ clRet["close1"] # "none"
    /\ Len(wireOut) = WireCap /\ ioErr["writer"] = ErrNetClosed
    /\ ioErr["reader"] = ErrNetClosed

----------------------------------------------------------------------------
\* The error readLoop passes to setErr, and the one writeLoop passes.
Recorded(g) ==
    IF g = "reader" THEN (IF IsEOF(ioErr[g]) THEN ErrEOF ELSE ioErr[g]) ELSE ioErr[g]

\* C24: the error of the peer and the error of the Manager are written
\* once: each changes only from nil, the peer's to the fault of the reader
\* or writer that calls setErr first and the Manager's to the failure of
\* the accept call, and never changes again, whatever fault is recorded
\* later; getErr returns that first fault.
C24_ErrWriteOnce ==
    /\ [][/\ p_err # Nil => p_err' = p_err
          /\ m_err # Nil => m_err' = m_err
          /\ p_err' # p_err
                => \E g \in {"reader", "writer"} :
                      pc[g] = "setErr" /\ pc'[g] # "setErr" /\ p_err' = Recorded(g)
          /\ m_err' # m_err => pc["accept"] = "accept" /\ m_err' = ErrAccept]_vars
    /\ [](m_peer => ErrOfPeer = p_err)

\* The reader recorded the stream end first; the writer then met a write
\* fault, passed it to setErr and returned: the peer's error is still the
\* stream end.
C24_Witness ==
    /\ p_err = ErrEOF /\ ioErr["reader"] = ErrEOF
    /\ ioErr["writer"] = ErrWrite /\ pc["writer"] = "done"
    /\ ErrOfPeer = ErrEOF

----------------------------------------------------------------------------
\* The step on which Decode returns an error to readLoop while the peer is
\* open and has no error.
DecodeFails ==
    /\ pc["reader"] = "decode" /\ pc'["reader"] = "setErr"
    /\ ~p_closed /\ p_err = Nil

\* C25: when Decode fails in readLoop, the error is io.EOF exactly when the
\* stream ended cleanly and the read fault otherwise; readLoop records
\* io.EOF for the one and the fault itself for the other (on a peer that
\* has no error yet when setErr runs); the failed Decode and the recording
\* leave the cache as it was; and the peer then becomes closed for good
\* and the reader returns.  (A panic of the game loop ends the process
\* before that.)
C25_DecodeFailureCloses ==
    /\ [][/\ DecodeFails
                => /\ ioErr'["reader"] = (IF inEnd = "eof" THEN ErrEOF ELSE ErrReset)
                   /\ latest' = latest /\ hasData' = hasData
          /\ (pc["reader"] = "setErr" /\ pc'["reader"] # "setErr")
                => /\ pc'["reader"] = "pclose"
                   /\ p_err = Nil => p_err' = ioErr["reader"]
                   /\ latest' = latest /\ hasData' = hasData
          /\ pc["reader"] \in {"setErr", "pclose", "pclose2", "pclose3", "done"}
                => (latest' = latest /\ hasData' = hasData
                    /\ pc'["reader"] \notin {"decode", "store"})]_vars
    /\ [](pc["reader"] = "setErr"
            => <>(~Alive \/ [](p_closed /\ sendChClosed /\ connClosed
                                /\ pc["reader"] = "done")))

\* The remote ended the stream after one snapshot: the reader stored the
\* snapshot, then recorded io.EOF, closed the peer and returned; the cache
\* still holds the snapshot.
C25_Witness ==
    /\ inEnd = "eof" /\ pc["reader"] = "done" /\ ioErr["reader"] = ErrEOF
    /\ p_err = ErrEOF /\ p_closed /\ connClosed /\ Alive
    /\ hasData /\ latest = RemoteState(1)

----------------------------------------------------------------------------
\* The step on which readLoop or writeLoop closes p.closed.
PipelineCloses ==
    \E g \in {"reader", "writer"} : pc[g] = "pclose" /\ pc'[g] = "pclose2"

\* C26: a peer closed by its reader or writer has its error recorded
\* before p.closed is closed: the error is set on the step that closes the
\* channel, a peer that is closed while no Close call has begun the
\* teardown has an error, and a send that returns because it saw such a
\* peer closed (without enqueueing) returns that error.
C26_ErrBeforeClosed ==
    /\ [][/\ PipelineCloses => p_err # Nil /\ p_err' = p_err
          /\ (SendReturns /\ p_closed /\ closeOnce = "new" /\ sendCh' = sendCh)
                => sendRet' = p_err /\ sendRet' # Nil]_vars
    /\ []((p_closed /\ closeOnce = "new") => p_err # Nil)

\* The reader met the end of the stream and is inside peer.close, having
\* closed p.closed only; a Send call saw the channel closed and returned
\* the recorded error.
C26_Witness ==
    /\ pc["reader"] = "pclose2" /\ p_closed /\ ~sendChClosed
    /\ closeOnce = "new" /\ p_err = ErrEOF
    /\ SendReturned /\ sendRet = ErrEOF

----------------------------------------------------------------------------
\* The tick in which the game loop built snapshot s: LocalState(n) carries
\* n as its player's X.
TickOf(s) == s.Player.X

\* Everything the single sender passed to send that is still somewhere:
\* the record the remote read last, the records on the wire, the snapshot
\* the writer is encoding, and the queue, oldest first.
Pipeline ==
    (IF rHasData THEN <<rLatest>> ELSE <<>>)
       \o [i \in 1..Len(wireOut) |-> Decode(wireOut[i])]
       \o (IF pc["writer"] = "encode" THEN <<wrMsg>> ELSE <<>>)
       \o sendCh

\* C27: with the game loop as the only sender, what the writer puts on the
\* wire is a subsequence of what was passed to send: every snapshot in the
\* pipeline was sent, and from the remote's last record through the wire
\* and the writer to the back of the queue the snapshots are in the order
\* of their sends, none twice.  The queue changes only by the writer
\* taking its head, by send evicting its head (the oldest entry), or by
\* send appending the new snapshot, so the entries that stay keep their
\* order; the wire changes only by the writer appending the snapshot it
\* took or the remote reading the first record.
C27_WireIsSubsequence ==
    /\ [](LET q == Pipeline
          IN  /\ \A i \in 1..Len(q) :
                    TickOf(q[i]) \in 1..tick /\ q[i] = LocalState(TickOf(q[i]))
              /\ \A i \in 1..(Len(q) - 1) : TickOf(q[i]) < TickOf(q[i + 1]))
    /\ [][/\ sendCh' # sendCh
                => \/ /\ pc["writer"] = "select" /\ pc'["writer"] = "encode"
                      /\ wrMsg' = Head(sendCh) /\ sendCh' = Tail(sendCh)
                   \/ /\ pc["tick"] = "send2" /\ sendCh' = Tail(sendCh)
                      /\ sendDropped' = sendDropped + 1
                   \/ /\ pc["tick"] \in {"send1", "send3"}
                      /\ sendCh' = Append(sendCh, LocalState(tick))
          /\ wireOut' # wireOut
                => \/ /\ pc["writer"] = "encode"
                      /\ wireOut' = Append(wireOut, Encode(wrMsg))
                   \/ /\ wireOut' = Tail(wireOut)
                      /\ rLatest' = Decode(Head(wireOut))]_vars

\* The writer is blocked writing snapshot 2 while the queue overflowed: the
\* send of the last tick evicted snapshot 3, the oldest queued, and the
\* queue holds the eight after it in order, the new one last.
C27_Witness ==
    /\ pc["writer"] = "encode" /\ wrMsg = LocalState(2)
    /\ sendDropped = 1 /\ SendReturned
    /\ sendCh = [i \in 1..defaultSendBufferSize |-> LocalState(i + 3)]
    /\ tick = defaultSendBufferSize + 3

----------------------------------------------------------------------------
\* C28: a Close call returns without waiting for a read, a write or an
\* Accept to complete and without waiting for the reader, the writer or the
\* accept goroutine to return: with no progress assumed for a goroutine
\* that is inside such a call, every Close call that was made returns.
\* Close holds no lock of the Manager across listener.Close or peer.close
\* (swapListener and getPeer are critical sections of their own), so the
\* game loop's calls stay possible at every point of the teardown.  (A
\* panic of the game loop ends the process.)
C28_CloseNeverWaits ==
    /\ \A c \in Closers : [](pc[c] = "do" => <>(~Alive \/ clRet[c] # "none"))
    /\ [](InCall(WireCap + 1)
            => ENABLED (TickLatest(WireCap + 1) \/ TickSend1 \/ TickErr1 \/ TickErr2))

\* Close has returned while the writer is still inside the write that was
\* blocked on full buffers and the reader is still inside its read.
C28_Witness ==
    /\ clRet["close1"] # "none" /\ connClosed
    /\ pc["writer"] = "encode" /\ Len(wireOut) = WireCap
    /\ pc["reader"] = "decode" /\ inEnd = "none"

----------------------------------------------------------------------------
\* The snapshots that are on the wire or that the remote has read, and
\* those still held by the queue or the writer.
Transmitted ==
    {Decode(wireOut[i]) : i \in 1..Len(wireOut)}
       \cup (IF rHasData THEN {rLatest} ELSE {})
Held ==
    {sendCh[i] : i \in 1..Len(sendCh)}
       \cup (IF pc["writer"] \in {"encode", "setErr"} THEN {wrMsg} ELSE {})

----------------------------------------------------------------------------
\* The remote player and the remote bullets are what applyRemoteState makes
\* of snapshot s: the six fields of s.Player, and one bullet per element of
\* s.Bullets with its position and velocity, in the same order, and no
\* other bullet.
ShowsSnapshot(remote, fire, s) ==
    /\ remote.X = s.Player.X /\ remote.Y = s.Player.Y
    /\ remote.VelocityX = s.Player.VelocityX /\ remote.VelocityY = s.Player.VelocityY
    /\ remote.OnGround = s.Player.OnGround /\ remote.FacingRight = s.Player.FacingRight
    /\ Len(fire) = Len(s.Bullets.elems)
    /\ \A i \in 1..Len(fire) :
          /\ fire[i].X = s.Bullets.elems[i].X /\ fire[i].Y = s.Bullets.elems[i].Y
          /\ fire[i].VelocityX = s.Bullets.elems[i].VelocityX

\* C30: when LatestState reports a snapshot, updateNetwork applies it and
\* the remote player and the remote bullets then show that snapshot alone,
\* whatever they showed before; when LatestState reports none, and in every
\* other step, they are left as they are.  So they show the game's
\* starting values until a call reported a snapshot, and from then on the
\* snapshot the last call returned.
C30_ApplyReplaces ==
    /\ [][/\ (CallsLatest /\ LatestState[2])
                => ShowsSnapshot(g_remote', g_enemyFire', LatestState[1])
          /\ (CallsLatest /\ ~LatestState[2]) => UNCHANGED gameVars
          /\ ~CallsLatest => UNCHANGED gameVars]_vars
    /\ [](IF lsRet[2] THEN ShowsSnapshot(g_remote, g_enemyFire, lsRet[1])
                      ELSE g_remote = StartPlayer /\ g_enemyFire = <<>>)

\* By its last tick the game has applied the remote's second snapshot,
\* which has no bullets, where the first had two: the remote player shows
\* the second snapshot and no bullet is left.
C30_Witness ==
    /\ tick = MaxPolls /\ lsRet = <<RemoteState(2), TRUE>>
    /\ Len(RemoteState(1).Bullets.elems) = 2
    /\ g_enemyFire = <<>> /\ g_remote.X = RemoteState(2).Player.X
    /\ ~g_remote.FacingRight

====
